---- MODULE Spec2Model ----
(***************************************************************************)
(* A model of the Heidelberg .e2e reader of OCT-Converter                  *)
(* (src/oct_converter/readers/e2e.py):                                     *)
(*   - the bespoke unsigned 16-bit float codec (uint16_to_ufloat16) and    *)
(*     the lookup table read_oct_volume builds from it   (SpecCodec);      *)
(*   - read_oct_volume and read_fundus_image: the two passes over the      *)
(*     linked directory, the pre-sizing of the slot arrays, the chunk      *)
(*     loop and the construction of the returned list    (Spec).           *)
(* The later sections follow the other readers of the package: the chunk   *)
(* scan of the Topcon readers (fds.py, fda.py), the Bioptigen reader       *)
(* (boct.py), the Optovue reader (poct.py), the dispatch by file suffix    *)
(* of create_dicom_from_oct (dicom.py) and the Zeiss frame unscrambler     *)
(* (czm_dcm_unscrambler.py); each has a specification of its own.          *)
(*                                                                         *)
(* The container is the environment: what a read returns is chosen when    *)
(* the code reads it.  A directory page can be read again (a prev chain    *)
(* may lead back to it), so its prev pointer is remembered in dir_prev;    *)
(* the sub-directory records of a page and the chunk behind each queued    *)
(* pointer are read once each.                                             *)
(*                                                                         *)
(* Contour chunks (type 10019) are among the chunk types the modelled      *)
(* fields do not depend on: they fill contour_dict, which only the         *)
(* contours argument of a returned volume reads.                           *)
(***************************************************************************)
EXTENDS Integers, Sequences, FiniteSets, TLC

VARIABLES
    \* ---- the E2E object (self) ----
    power,              \* self.power, set by __init__ to pow(2, 10)
    self_patient,       \* self.sex/first_name/surname/birthdate/patient_id
    \* ---- the codec under examination ----
    uint16,             \* the 16-bit input
    decimal_value,      \* <<result>> of the last per-call decode, <<>> before
    calls,              \* number of per-call decodes made so far
    LUT,                \* the table's entries <<index, value>> at index uint16
    \* ---- one read operation ----
    op,                 \* "oct" (read_oct_volume) or "fundus" (read_fundus_image)
    pc,                 \* position in the operation
    exc,                \* the exception that ended it, if any
    npages,             \* container: its directory pages are at 1..npages
    main_directory,     \* main_directory.current, read behind the header
    current,            \* the directory pointer being followed
    dir_prev,           \* container: prev pointer of each page read so far
    directory_stack,    \* page offsets pushed by the first pass
    visited,            \* page offsets the second pass has sought to, in order
    num_entries,        \* directory_chunk.num_entries of the page being scanned
    ii,                 \* the records of that page read so far
    volume_dict,        \* key -> largest slice_id seen (in half units), a dict
    chunk_stack,        \* queued [start, size] pointers
    volume_array_dict,  \* key -> slot array
    volume_array_dict_additional, \* key -> slices not caught by extraction
    laterality,         \* the local variable laterality
    laterality_dict,    \* key -> laterality
    image_array_dict,   \* read_fundus_image: key -> image
    idx,                \* index into chunk_stack of the chunk loop
    chunk,              \* the chunk read by the latest loop iteration
    warned,             \* number of warnings.warn calls
    result,             \* the returned list
    \* ---- history, read by the properties only ----
    decoded,            \* the image chunks decoded so far: [start, key, slice_id]
    own_lat,            \* key -> laterality last seen in a chunk of that key
    own_patient,        \* key -> patient last seen in a chunk of that key
    \* ---- the process ----
    open_handles,       \* number of file handles the process holds open
    \* ---- the Topcon readers (FDS, FDA) ----
    reader,             \* "fds" or "fda"
    file,               \* the container: its bytes
    t_pc,               \* position: "new", "scan", "ready", "read"
    f_pos,              \* the cursor of the open handle f
    eof,                \* the local variable eof of the scan
    chunk_dict,         \* the local variable chunk_dict of the scan
    self_chunk_dict,    \* self.chunk_dict, set by __init__
    scans,              \* outcome of each scan made so far, in call order
    oct_outcome,        \* outcome of read_oct_volume, <<>> before
    \* ---- the Bioptigen reader (BOCT) ----
    b_pc,               \* position: "new", "parsed", "loading"
    hdr,                \* container: the header values
    framelines,         \* container: framelines of each on-disk frame
    buffering,          \* "disk" or "memory": the buffer of the object
    volume_shape,       \* self.volume_shape
    indicies,           \* self.indicies: the tables to_vol and to_stack
    Bscan_geom,         \* self.Bscan_geom = (Ascans, depth)
    vol,                \* the disk-backed buffer, one frame per cell
    mem,                \* the in-memory buffer, one frame per cell
    loaded,             \* self.loaded
    cell,               \* cells of the grid walked by the running load
    b_outcome,          \* outcome of the latest load_oct_volume
    b_loads,            \* calls of load_oct_volume made
    \* ---- history, read by the properties only ----
    b_reads,            \* the reads of the running or latest load, in order
    complete,           \* the buffers filled by a load that ran to its end
    \* ---- create_dicom_from_oct ----
    d_pc,               \* position: "start", "try", "convert", "write", ...
    suffix,             \* the text behind the last "." of input_file
    d_parser,           \* the conversion that runs: "boct", "poct", "fds", ...
    d_exc,              \* the exception that reached the caller
    d_todo,             \* volumes the running conversion has yet to write
    d_files,            \* files: the list the running conversion returns
    disk,               \* the DICOM files written to output_dir
    \* ---- history, read by the properties only ----
    called,             \* the readers constructed, in order
    d_mismatch,         \* the Bioptigen reader raised a mismatch error
    \* ---- the Optovue reader ----
    p_pc,               \* position: "start", "made", "done", "raised"
    oct_exists,         \* the .oct file exists
    txt_exists,         \* the .txt filespec exists
    filespec,           \* the scans the filespec lists
    p_data,             \* the number of float32 values in the .oct file
    p_obj,              \* the constructor returned a reader object
    p_exc,              \* the exception raised
    p_reads,            \* files opened and read so far
    p_volumes,          \* the volumes returned: slices per volume
    \* ---- history of the E2E second pass, read by the properties only ----
    records,            \* the sub-directory records read, in order
    ranges,             \* the [start, size] pointers queued, in order
    \* ---- two calls of read_oct_volume side by side ----
    twin_pc,            \* "chunks" while the loops run, then "done"
    twin_key,           \* the key whose chunks the two containers differ in
    twin_n,             \* chunks read so far
    twin_one,           \* the locals of the first call
    twin_two,           \* the locals of the second call
    twin_out,           \* what the two calls gave their callers
    \* ---- the byte decoder ----
    custom_value,       \* <<result>> of read_custom_float, <<>> before
    \* ---- unscramble_czm ----
    z_pc,               \* "start", "done" or "raised"
    z_frame,            \* the argument frame
    z_d,                \* the returned bytearray d
    z_exc,              \* the exception raised
    \* ---- history, read by the properties only ----
    z_src               \* the byte positions of the frame d was made of

e2e_vars == <<op, pc, exc, npages, main_directory, current, dir_prev,
              directory_stack, visited, num_entries, ii,
              volume_dict, chunk_stack, volume_array_dict,
              volume_array_dict_additional, laterality, laterality_dict,
              image_array_dict, idx, chunk, warned, result,
              decoded, own_lat, own_patient>>
codec_vars == <<uint16, decimal_value, calls, LUT>>
topcon_vars == <<reader, file, t_pc, f_pos, eof, chunk_dict, self_chunk_dict,
                 scans, oct_outcome>>
boct_vars == <<b_pc, hdr, framelines, buffering, volume_shape, indicies,
              Bscan_geom,
               vol, mem, loaded, cell, b_outcome, b_loads, b_reads,
               complete>>
\* what the E2E operations and the codec leave alone
dicom_vars == <<d_pc, suffix, d_parser, d_exc, d_todo, d_files, disk, called,
                d_mismatch>>
\* what the E2E operations and the codec leave alone
poct_vars == <<p_pc, oct_exists, txt_exists, filespec, p_data, p_obj, p_exc,
               p_reads, p_volumes>>
twin_vars == <<twin_pc, twin_key, twin_n, twin_one, twin_two, twin_out>>
czm_vars == <<z_pc, z_frame, z_d, z_exc, z_src>>
more_vars == <<poct_vars, records, ranges, twin_vars, custom_value,
               czm_vars>>
rest_vars == <<topcon_vars, boct_vars, dicom_vars, more_vars>>
vars == <<power, self_patient, codec_vars, e2e_vars, open_handles, rest_vars>>

None == "None"

(***************************************************************************)
(* The custom float codec.                                                 *)
(***************************************************************************)

\* pow(2, 16): the number of LUT entries and of distinct inputs
LutSize == 65536
\* pow(2, 10), the value __init__ stores in self.power
Pow2_10 == 1024
\* the exponent bias
ExpBias == 63
\* per-call decodes made before / around the table build
MaxCalls == 2

\* The characters of a bit string, as a sequence of 0/1, first character first.
RECURSIVE BitsMSB(_, _)
BitsMSB(n, width) ==
    IF width = 0 THEN <<>>
    ELSE Append(BitsMSB(n \div 2, width - 1), n % 2)

\* "{0:016b}".format(uint16)
Format016b(n) == BitsMSB(n, 16)

\* s[::-1]
Reversed(s) == [i \in 1..Len(s) |-> s[Len(s) + 1 - i]]

\* int(s, 2)
RECURSIVE IntBase2(_)
IntBase2(s) ==
    IF Len(s) = 0 THEN 0
    ELSE 2 * IntBase2(SubSeq(s, 1, Len(s) - 1)) + s[Len(s)]

\* A decoded value mantissa_sum * 2^exponent_sum, kept exact: mantissa_sum is
\* the fraction num/den and exponent_sum the power of two.
Decimal(num, den, e) == [num |-> num, den |-> den, exp |-> e]

\* The decoder with the exponent bits read in string order, not reversed:
\* a faulty variant the closed form must tell apart.
uint16_to_ufloat16_NoExpReverse(x, pw) ==
    LET bits     == Reversed(Format016b(x))
        mantissa == SubSeq(bits, 1, 10)
        exponent == SubSeq(bits, 11, 16)
    IN  Decimal(pw + IntBase2(mantissa), pw, IntBase2(exponent) - ExpBias)

\* E2E.uint16_to_ufloat16, reading self.power
uint16_to_ufloat16(x, pw) ==
    LET bits     == Reversed(Format016b(x))
        mantissa == SubSeq(bits, 1, 10)
        exponent == Reversed(SubSeq(bits, 11, 16))
        \* mantissa_sum = 1 + int(mantissa, 2) / self.power
        \* exponent_sum = int(exponent, 2) - 63
    IN  Decimal(pw + IntBase2(mantissa), pw, IntBase2(exponent) - ExpBias)

\* Bit i (0 = least significant) of n
Bit(n, i) == (n \div (2 ^ i)) % 2

\* The codec's closed form: the 16-bit string is the low byte bit-reversed
\* followed by the high byte bit-reversed; m is the value of its first 10
\* bits, e the value of its last 6 bits read in reverse.
ClosedFormString(x) ==
    LET lo == x % 256
        hi == x \div 256
    IN  [j \in 1..16 |-> IF j <= 8 THEN Bit(lo, j - 1) ELSE Bit(hi, j - 9)]

RECURSIVE WeightedSum(_, _, _)
\* sum of s[j] * 2^w(j) for j in lo..hi, with w(j) = hi - j
WeightedSum(s, lo, hi) ==
    IF lo > hi THEN 0 ELSE s[lo] * (2 ^ (hi - lo)) + WeightedSum(s, lo + 1, hi)

ClosedForm(x) ==
    LET s == ClosedFormString(x)
        m == WeightedSum(s, 1, 10)
        e == WeightedSum(Reversed(SubSeq(s, 11, 16)), 1, 6)
    IN  Decimal(1024 + m, 1024, e - 63)

CodecInit ==
    /\ uint16 \in 0..(LutSize - 1)
    /\ decimal_value = <<>>
    /\ calls = 0
    /\ LUT = {}

\* one call of uint16_to_ufloat16(uint16)
Decode ==
    /\ calls < MaxCalls
    /\ calls' = calls + 1
    /\ decimal_value' = <<uint16_to_ufloat16(uint16, power)>>
    /\ UNCHANGED <<uint16, LUT>>

\* _make_lut, the iteration i = uint16 of its loop: the list holds one entry
\* per earlier iteration (len(LUT) = i), so LUT.append puts the value at
\* index i.
MakeLut ==
    /\ LUT = {}
    /\ LET i == uint16
           len == i
       IN  LUT' = {<<len, uint16_to_ufloat16(i, power)>>}
    /\ UNCHANGED <<uint16, decimal_value, calls>>

\* bin(n)[2:]: the binary digits of n without leading zeros, "0" for 0
RECURSIVE Bin(_)
Bin(n) == IF n < 2 THEN <<n>> ELSE Append(Bin(n \div 2), n % 2)

\* s.zfill(width): zeros in front of a string shorter than width
ZFill(s, width) ==
    IF Len(s) >= width THEN s
    ELSE [i \in 1..(width - Len(s)) |-> 0] \o s

\* a byte decoder that takes the bits of each byte in printed order
read_custom_float_NoReverse(bytes, pw) ==
    LET bits     == ZFill(Bin(bytes[1]), 8) \o ZFill(Bin(bytes[2]), 8)
        mantissa == SubSeq(bits, 1, 10)
        exponent == SubSeq(bits, 11, 16)
    IN  Decimal(pw + IntBase2(mantissa), pw,
                IntBase2(Reversed(exponent)) - ExpBias)

\* E2E.read_custom_float, reading self.power; bytes[1] is bytes[0] of the
\* source
read_custom_float(bytes, pw) ==
    LET bits     == Reversed(ZFill(Bin(bytes[1]), 8))
                    \o Reversed(ZFill(Bin(bytes[2]), 8))
        mantissa == SubSeq(bits, 1, 10)
        exponent == SubSeq(bits, 11, 16)
        \* mantissa_sum = 1 + int(mantissa, 2) / self.power
        \* exponent_sum = int(exponent[::-1], 2) - 63
    IN  Decimal(pw + IntBase2(mantissa), pw,
                IntBase2(Reversed(exponent)) - ExpBias)

\* the two bytes of a uint16 sample as the file holds them: low byte first
LittleEndian(x) == <<x % 256, x \div 256>>

\* one call of read_custom_float on the two bytes of the sample uint16
ReadCustomFloat ==
    /\ custom_value = <<>>
    /\ custom_value' = <<read_custom_float(LittleEndian(uint16), power)>>
    /\ UNCHANGED <<uint16, decimal_value, calls, LUT>>

(***************************************************************************)
(* Python values used by the reader.                                       *)
(***************************************************************************)

\* A dict is the sequence of its items <<key, value>> in insertion order.
DictKeys(d) == {d[i][1] : i \in 1..Len(d)}
DictHas(d, k) == k \in DictKeys(d)
DictGet(d, k) == d[CHOOSE i \in 1..Len(d) : d[i][1] = k][2]
\* d[k] = v: replaces the value of an existing key in place, else appends
DictPut(d, k, v) ==
    IF DictHas(d, k)
    THEN [i \in 1..Len(d) |-> IF d[i][1] = k THEN <<k, v>> ELSE d[i]]
    ELSE Append(d, <<k, v>>)
\* d.get(k), with "None" for a missing key
DictGetOrNone(d, k) == IF DictHas(d, k) THEN DictGet(d, k) ELSE None

\* int(n / 2): Python's true division followed by truncation toward zero
IntHalf(n) == IF n >= 0 THEN n \div 2 ELSE -((-n) \div 2)

\* Whether lst[i] = v raises IndexError (i is a Python index: negative
\* indices count from the end)
IndexErrorAt(lst, i) == i >= Len(lst) \/ i < -Len(lst)
\* lst after lst[i] = v, for an index that does not raise
ListSet(lst, i, v) ==
    LET at == IF i >= 0 THEN i + 1 ELSE Len(lst) + i + 1
    IN  [lst EXCEPT ![at] = v]

\* a handle that is closed by f.close() before the return statement only
CloseOnReturn(h, how) == IF how = "raise" THEN h ELSE h - 1
\* "with open(self.filepath, "rb") as f": the number of open handles after
\* the block is left, by its end or a return or by an exception
CloseOnExit(h, how) == h - 1

(***************************************************************************)
(* The container, as far as the reader looks at it.                        *)
(***************************************************************************)

\* a container holds at most MaxPage directory pages, at offsets
\* 1..MaxPage; 0 ends a prev chain
MaxPage == 3
\* The chunk loop is followed over the containers with one directory page:
\* every volume_dict and chunk_stack that several pages give, one page with
\* as many records gives too.
AsmPages == {1}
\* sub-directory records per page
MaxEntries == 2
\* the first pass is followed for at most this many pushes
MaxStack == 4

\* "{}_{}_{}".format(patient_id, study_id, series_id) of two series
VolumeStrings == {"1_1_1", "1_1_2"}

\* chunk.type values the loop tests for
TypePatient == 9
TypeLaterality == 11
TypeImage == 1073741824
\* some other chunk type
TypeOther == 3
\* laterality_data.laterality values the loop tests for
LatR == 82
LatL == 76

\* slice_id values of sub-directory records
DirSliceIds == {-1, 2, 4}
\* slice_id values of image chunk headers
ChunkSliceIds == {-1, 2, 4, 6}

\* A sub-directory record as the environment supplies it: its key fields,
\* its slice_id, and whether it points at data (start > pos) or is
\* directory bookkeeping.
SubDirInputs ==
    [key : VolumeStrings, slice_id : DirSliceIds, data : BOOLEAN]

\* The record read at page `page` when `queued` pointers are already in
\* chunk_stack: data chunks lie behind the directory pages, one after the
\* other, and a bookkeeping record has start = 0.
SubDirRecord(inp, page, queued) ==
    [pos      |-> page,
     start    |-> IF inp.data THEN MaxPage + queued + 1 ELSE 0,
     key      |-> inp.key,
     slice_id |-> inp.slice_id]

\* patient_id_structure payloads: two patients, or bytes that do not parse
PatientData == {"P1", "P2", "BAD"}
\* lat_structure payloads: the laterality byte, or -1 for bytes that do not
\* parse (a short read)
LatData == {LatR, LatL, 0, -1}
\* image_structure payloads with the number of samples the file still holds
\* behind the image header: a full image, a short one, an empty one
ImageData ==
    { [width |-> 2, height |-> 2, avail |-> 4],
      [width |-> 2, height |-> 2, avail |-> 3],
      [width |-> 0, height |-> 2, avail |-> 0] }

ChunkRec(type, ind, key, slice_id, patient, lat, img) ==
    [type |-> type, ind |-> ind, key |-> key, slice_id |-> slice_id,
     patient |-> patient, lat |-> lat,
     width |-> img.width, height |-> img.height, avail |-> img.avail]

NoImage == [width |-> 0, height |-> 0, avail |-> 0]
NoChunk == ChunkRec(0, 0, "", 0, "", 0, NoImage)

\* The chunks a queued pointer can lead to.
ChunkInputs ==
    {ChunkRec(TypePatient, 0, k, 0, p, 0, NoImage) :
        k \in VolumeStrings, p \in PatientData}
    \cup {ChunkRec(TypeLaterality, 0, k, 0, "", l, NoImage) :
        k \in VolumeStrings, l \in LatData}
    \cup {ChunkRec(TypeImage, 1, kd[1], kd[2], "", 0, kd[3]) :
        kd \in VolumeStrings \X ChunkSliceIds \X ImageData}
    \cup {ChunkRec(TypeImage, 0, k, 0, "", 0, d) :
        k \in VolumeStrings, d \in ImageData}
    \cup {ChunkRec(TypeOther, 0, "1_1_1", 0, "", 0, NoImage)}

(***************************************************************************)
(* read_oct_volume / read_fundus_image: the directory passes.              *)
(***************************************************************************)

Unset == "unset"

\* the locals of a read operation before it starts
E2EIdle ==
    /\ pc = "start"
    /\ exc = None
    /\ main_directory = 0
    /\ current = 0
    /\ dir_prev = <<>>
    /\ directory_stack = <<>>
    /\ visited = <<>>
    /\ num_entries = 0
    /\ ii = 0
    /\ volume_dict = <<>>
    /\ chunk_stack = <<>>
    /\ volume_array_dict = <<>>
    /\ volume_array_dict_additional = <<>>
    /\ laterality = None
    /\ laterality_dict = <<>>
    /\ image_array_dict = <<>>
    /\ idx = 0
    /\ chunk = NoChunk
    /\ warned = 0
    /\ result = <<>>
    /\ decoded = <<>>
    /\ own_lat = [k \in VolumeStrings |-> None]
    /\ own_patient = [k \in VolumeStrings |-> None]

scan_vars == <<num_entries, ii>>
loop_vars == <<volume_array_dict, volume_array_dict_additional, laterality,
               laterality_dict, image_array_dict, idx, chunk, warned, result,
               decoded, own_lat, own_patient, self_patient>>

\* header and main directory are read; current = main_directory.current
ReadMainDirectory ==
    /\ pc = "start"
    /\ \E c \in 0..npages :
          /\ main_directory' = c
          /\ current' = c
    /\ pc' = "walk"
    /\ UNCHANGED <<op, exc, npages, dir_prev, directory_stack, visited,
                   scan_vars, volume_dict, chunk_stack, loop_vars>>

\* a stack that inserts at the front: the order append must not produce
PushPageFront(stack, page) == <<page>> \o stack
\* directory_stack.append(current)
PushPage(stack, page) == Append(stack, page)

\* one iteration of "while current != 0"
FirstPass ==
    /\ pc = "walk"
    /\ current # 0
    /\ Len(directory_stack) < MaxStack
    /\ directory_stack' = PushPage(directory_stack, current)
    /\ \E prev \in 0..npages :
          /\ current \in DOMAIN dir_prev => prev = dir_prev[current]
          /\ dir_prev' = (current :> prev) @@ dir_prev
          /\ current' = prev
    /\ UNCHANGED <<op, pc, exc, npages, main_directory, visited, scan_vars,
                   volume_dict, chunk_stack, loop_vars>>

\* the while loop ends: chunk_stack = [], volume_dict = {}
FirstPassEnd ==
    /\ pc = "walk"
    /\ current = 0
    /\ pc' = "scan"
    /\ UNCHANGED <<op, exc, npages, main_directory, current, dir_prev,
                   directory_stack, visited, scan_vars, volume_dict,
                   chunk_stack, loop_vars>>

\* a scan that keeps the slice_id of the first record of a key
ScanRecordOctFirst(vd, cs, rec) ==
    [vd |-> IF ~DictHas(vd, rec.key) THEN DictPut(vd, rec.key, rec.slice_id)
            ELSE vd,
     cs |-> IF rec.start > rec.pos THEN Append(cs, rec.start) ELSE cs]

\* One sub-directory record in read_oct_volume.  volume_dict holds
\* chunk.slice_id / 2; the model keeps the numerator slice_id, which orders
\* the same way.
ScanRecordOct(vd, cs, rec) ==
    [vd |-> IF ~DictHas(vd, rec.key) THEN DictPut(vd, rec.key, rec.slice_id)
            ELSE IF rec.slice_id > DictGet(vd, rec.key)
                 THEN DictPut(vd, rec.key, rec.slice_id)
                 ELSE vd,
     cs |-> IF rec.start > rec.pos THEN Append(cs, rec.start) ELSE cs]

\* One sub-directory record in read_fundus_image
ScanRecordFundus(vd, cs, rec) ==
    [vd |-> vd,
     cs |-> IF rec.start > rec.pos THEN Append(cs, rec.start) ELSE cs]

\* one iteration of "for position in directory_stack", up to its inner
\* loop: the page is sought and its header read
SeekPage ==
    /\ pc = "scan"
    /\ ii = num_entries
    /\ Len(visited) < Len(directory_stack)
    /\ visited' = Append(visited, directory_stack[Len(visited) + 1])
    /\ \E n \in 0..MaxEntries : num_entries' = n
    /\ ii' = 0
    /\ UNCHANGED <<op, pc, exc, npages, main_directory, current, dir_prev,
                   directory_stack, volume_dict, chunk_stack, loop_vars>>

\* one iteration of "for ii in range(directory_chunk.num_entries)" that
\* reads the record inp
ReadRecordOf(inp) ==
    /\ pc = "scan"
    /\ ii < num_entries
    /\ LET rec  == SubDirRecord(inp, visited[Len(visited)], Len(chunk_stack))
           next == IF op = "oct"
                   THEN ScanRecordOct(volume_dict, chunk_stack, rec)
                   ELSE ScanRecordFundus(volume_dict, chunk_stack, rec)
       IN  /\ volume_dict' = next.vd
           /\ chunk_stack' = next.cs
    /\ ii' = ii + 1
    /\ UNCHANGED <<op, pc, exc, npages, main_directory, current, dir_prev,
                   directory_stack, visited, num_entries, loop_vars>>

\* one iteration of "for ii in range(directory_chunk.num_entries)"
ReadRecord == \E inp \in SubDirInputs : ReadRecordOf(inp)

\* A sub-directory record whose pointer is whatever the file holds: start
\* and size are not bound to the layout SubDirRecord gives.
RangeStarts == {0, MaxPage + 1, MaxPage + 2}
RangeSizes == {0, 1, 2}
RangeInputs ==
    [key : {"1_1_1"}, slice_id : {2}, start : RangeStarts, size : RangeSizes]
RangeRecord(inp, page) ==
    [pos      |-> page,
     start    |-> inp.start,
     size     |-> inp.size,
     key      |-> inp.key,
     slice_id |-> inp.slice_id]

\* "if chunk.start > chunk.pos: chunk_stack.append([chunk.start, chunk.size])"
QueuePointer(q, rec) ==
    IF rec.start > rec.pos
    THEN Append(q, [start |-> rec.start, size |-> rec.size])
    ELSE q

\* one iteration of "for ii in range(directory_chunk.num_entries)" over
\* such a record, with the queued [start, size] pairs kept in ranges
ReadRangeRecord ==
    /\ pc = "scan"
    /\ ii < num_entries
    /\ \E inp \in RangeInputs :
          LET rec  == RangeRecord(inp, visited[Len(visited)])
              next == ScanRecordOct(volume_dict, chunk_stack, rec)
          IN  /\ volume_dict' = next.vd
              /\ chunk_stack' = next.cs
              /\ ranges' = QueuePointer(ranges, rec)
    /\ ii' = ii + 1
    /\ UNCHANGED <<op, pc, exc, npages, main_directory, current, dir_prev,
                   directory_stack, visited, num_entries, loop_vars>>

\* [0] * int(num_slices + 1), for num_slices = slice_id / 2 > 0
SlotArray(slice_id) == [i \in 1..(IntHalf(slice_id + 2)) |-> 0]

\* "for volume, num_slices in volume_dict.items(): if num_slices > 0: ..."
RECURSIVE PreSize(_, _)
PreSize(vd, i) ==
    IF i > Len(vd) THEN <<>>
    ELSE IF vd[i][2] > 0
         THEN <<<<vd[i][1], SlotArray(vd[i][2])>>>> \o PreSize(vd, i + 1)
         ELSE PreSize(vd, i + 1)

\* the second pass ends; the dicts of the chunk loop are initialised
Allocate ==
    /\ pc = "scan"
    /\ ii = num_entries
    /\ Len(visited) = Len(directory_stack)
    /\ volume_array_dict' = IF op = "oct" THEN PreSize(volume_dict, 1) ELSE <<>>
    /\ pc' = "chunks"
    /\ UNCHANGED <<op, exc, npages, main_directory, current, dir_prev,
                   directory_stack, visited, scan_vars, volume_dict,
                   chunk_stack, volume_array_dict_additional, laterality, laterality_dict,
                   image_array_dict, idx, chunk, warned, result, decoded,
                   own_lat, own_patient, self_patient>>

(***************************************************************************)
(* The chunk loop.                                                         *)
(***************************************************************************)

\* The variables one loop iteration can change
LoopState ==
    [vad     |-> volume_array_dict,
     add     |-> volume_array_dict_additional,
     iad     |-> image_array_dict,
     lat     |-> laterality,
     latd    |-> laterality_dict,
     patient |-> self_patient,
     warned  |-> warned,
     pc      |-> "chunks",
     exc     |-> None]

\* "if chunk.type == 9": the patient fields are set when the payload parses
PatientChunk(st, c) ==
    IF c.type = TypePatient /\ c.patient # "BAD"
    THEN [st EXCEPT !.patient = c.patient]
    ELSE st

\* "if chunk.type == 11"
LateralityChunk(st, c) ==
    IF c.type # TypeLaterality THEN st
    ELSE IF c.lat = -1 THEN [st EXCEPT !.lat = None]
    ELSE IF c.lat = LatR THEN [st EXCEPT !.lat = "R"]
    ELSE IF c.lat = LatL THEN [st EXCEPT !.lat = "L"]
    ELSE st

\* the number of items np.fromfile / f.read return for a request of count
ItemsRead(c, count) == IF c.avail < count THEN c.avail ELSE count

\* whether an array of n items reshapes to (width, height)
Reshapes(n, width, height) == n = width * height

\* The image decoded from the chunk at offset start.  Data chunks have
\* start > 0, so the offset names the image and 0 stays the int the slot
\* arrays are filled with.
Image(start) == start
IsInt(slot) == slot = 0

\* "if volume_string in volume_array_dict.keys(): ... else: ..." (the slot
\* assignment can raise IndexError, which nothing catches)
StoreSlice(st, c, image) ==
    LET index == IntHalf(c.slice_id) - 1
    IN  IF DictHas(st.vad, c.key)
        THEN LET slots == DictGet(st.vad, c.key)
             IN  IF IndexErrorAt(slots, index)
                 THEN [st EXCEPT !.pc = "raised", !.exc = "IndexError"]
                 ELSE [st EXCEPT !.vad = DictPut(st.vad, c.key,
                                           ListSet(slots, index, image))]
        ELSE IF DictHas(st.add, c.key)
             THEN [st EXCEPT !.add = DictPut(st.add, c.key,
                                 Append(DictGet(st.add, c.key), image))]
             ELSE [st EXCEPT !.add = DictPut(st.add, c.key, <<image>>)]

\* "if laterality and volume_string not in laterality_dict"
NoteLaterality(st, c) ==
    IF st.lat # None /\ ~DictHas(st.latd, c.key)
    THEN [st EXCEPT !.latd = DictPut(st.latd, c.key, st.lat)]
    ELSE st

\* A faulty variant of ReshapeFailed: the loop is left
ReshapeFailedBreaks(st) == [st EXCEPT !.warned = @ + 1, !.pc = "finish"]
\* the except branch of the reshape: warnings.warn, nothing else
ReshapeFailed(st) == [st EXCEPT !.warned = @ + 1]

\* "if chunk.type == 1073741824" in read_oct_volume
OctImageChunk(st, c, start) ==
    IF c.type # TypeImage \/ c.ind # 1 THEN st
    ELSE LET count == c.height * c.width
         IN  IF count = 0 THEN [st EXCEPT !.pc = "finish"]
             ELSE IF ~Reshapes(ItemsRead(c, count), c.width, c.height)
                  THEN ReshapeFailed(st)
                  ELSE LET stored == StoreSlice(st, c, Image(start))
                       IN  IF stored.pc = "raised" THEN stored
                           ELSE NoteLaterality(stored, c)

\* "if chunk.type == 1073741824" in read_fundus_image
FundusImageChunk(st, c, start) ==
    IF c.type # TypeImage THEN st
    ELSE LET count == c.height * c.width
         IN  IF count = 0 THEN [st EXCEPT !.pc = "finish"]
             ELSE IF c.ind # 0 THEN st
             ELSE IF ~Reshapes(ItemsRead(c, count), c.height, c.width)
                  THEN [st EXCEPT !.pc = "raised", !.exc = "ValueError"]
                  ELSE [st EXCEPT
                          !.iad = DictPut(st.iad, c.key, Image(start)),
                          !.latd = DictPut(st.latd, c.key, st.lat)]

\* the body of "for start, pos in chunk_stack"
ChunkBody(o, st, c, start) ==
    LET s1 == LateralityChunk(PatientChunk(st, c), c)
    IN  IF o = "oct" THEN OctImageChunk(s1, c, start)
        ELSE FundusImageChunk(s1, c, start)

\* whether the iteration decoded an image and kept it
Kept(o, st, c, new) ==
    /\ c.type = TypeImage
    /\ c.ind = (IF o = "oct" THEN 1 ELSE 0)
    /\ new.pc = "chunks"
    /\ new.warned = st.warned
    /\ c.height * c.width # 0

\* the keys an image chunk has been decoded for
Imaged == {decoded[i].key : i \in 1..Len(decoded)}

\* one iteration of the chunk loop
ChunkStep ==
    /\ pc = "chunks"
    /\ idx < Len(chunk_stack)
    /\ \E c \in ChunkInputs :
          LET start == chunk_stack[idx + 1]
              st    == LoopState
              new   == ChunkBody(op, st, c, start)
          IN  /\ chunk' = c
              /\ idx' = idx + 1
              /\ volume_array_dict' = new.vad
              /\ volume_array_dict_additional' = new.add
              /\ image_array_dict' = new.iad
              /\ laterality' = new.lat
              /\ laterality_dict' = new.latd
              /\ self_patient' = new.patient
              /\ warned' = new.warned
              /\ pc' = new.pc
              /\ exc' = new.exc
              /\ decoded' = IF Kept(op, st, c, new)
                            THEN Append(decoded, [start |-> start, key |-> c.key,
                                                  slice_id |-> c.slice_id])
                            ELSE decoded
              /\ own_patient' =
                    IF c.type = TypePatient /\ c.patient # "BAD"
                       /\ c.key \notin Imaged
                    THEN [own_patient EXCEPT ![c.key] = c.patient]
                    ELSE own_patient
              /\ own_lat' =
                    IF c.type = TypeLaterality /\ c.lat \in {LatR, LatL}
                       /\ c.key \notin Imaged
                    THEN [own_lat EXCEPT ![c.key] =
                                          IF c.lat = LatR THEN "R" ELSE "L"]
                    ELSE own_lat
    /\ UNCHANGED <<op, npages, main_directory, current, dir_prev,
                   directory_stack, visited, scan_vars, volume_dict,
                   chunk_stack, result>>

(***************************************************************************)
(* The returned list.                                                      *)
(***************************************************************************)

\* OCTVolumeWithMetaData(volume=..., patient_id=self.patient_id, ...)
OCTVolumeWithMetaData(volume, patient, volume_id, lat) ==
    [volume |-> volume, patient |-> patient, volume_id |-> volume_id,
     laterality |-> lat, num_slices |-> Len(volume)]

\* "if isinstance(volume[0], int): continue"
KeepVolume(volume) == ~IsInt(volume[1])

\* the items of chain(volume_array_dict.items(),
\*                    volume_array_dict_additional.items()) that are kept
KeptItems(items) == SelectSeq(items, LAMBDA it : KeepVolume(it[2]))

\* the final loop of read_oct_volume
OctVolumes(items, patient, latd) ==
    [i \in 1..Len(KeptItems(items)) |->
        LET it == KeptItems(items)[i]
        IN  OCTVolumeWithMetaData(it[2], patient, it[1],
                                  DictGetOrNone(latd, it[1]))]

\* FundusImageWithMetaData(image=..., patient_id=self.patient_id, ...)
FundusImageWithMetaData(image, patient, image_id, lat) ==
    [volume |-> <<image>>, patient |-> patient, volume_id |-> image_id,
     laterality |-> lat, num_slices |-> 1]

\* the final loop of read_fundus_image
FundusImages(items, patient, latd) ==
    [i \in 1..Len(items) |->
        FundusImageWithMetaData(items[i][2], patient, items[i][1],
                                DictGetOrNone(latd, items[i][1]))]

\* The loops that build the returned list read self.patient_id, which only
\* a parsed patient chunk sets: with an item to build and no such chunk the
\* attribute lookup raises AttributeError.
FinishOutcome(o, vad, add, iad, patient, latd) ==
    LET items == IF o = "oct" THEN KeptItems(vad \o add) ELSE iad
    IN  IF Len(items) > 0 /\ patient = Unset
        THEN [pc |-> "raised", exc |-> "AttributeError", result |-> <<>>]
        ELSE [pc |-> "done", exc |-> None,
              result |-> IF o = "oct"
                         THEN OctVolumes(vad \o add, patient, latd)
                         ELSE FundusImages(iad, patient, latd)]

\* the loop has ended, by its last chunk or by a break
Finish ==
    /\ \/ pc = "finish"
       \/ pc = "chunks" /\ idx = Len(chunk_stack)
    /\ LET out == FinishOutcome(op, volume_array_dict,
                                volume_array_dict_additional,
                                image_array_dict, self_patient,
                                laterality_dict)
       IN  /\ pc' = out.pc
           /\ exc' = out.exc
           /\ result' = out.result
    /\ UNCHANGED <<op, npages, main_directory, current, dir_prev,
                   directory_stack, visited, scan_vars, volume_dict,
                   chunk_stack, volume_array_dict,
                   volume_array_dict_additional, laterality, laterality_dict,
                   image_array_dict, idx, chunk, warned, decoded, own_lat,
                   own_patient, self_patient>>

\* the with block of read_oct_volume and read_fundus_image: entered by the
\* step that reads the main directory, left by the end of the operation or
\* by an exception
E2EHandle ==
    open_handles' =
        IF pc = "start" /\ pc' # "start" THEN open_handles + 1
        ELSE IF pc # "raised" /\ pc' = "raised"
             THEN CloseOnExit(open_handles, "raise")
        ELSE IF pc # "done" /\ pc' = "done"
             THEN CloseOnExit(open_handles, "return")
        ELSE open_handles

(***************************************************************************)
(* The Topcon readers (src/oct_converter/readers/fds.py, fda.py): the      *)
(* sequential scan of tagged chunks, get_list_of_file_chunks, which both   *)
(* classes run from __init__ and which can be called again, and the entry  *)
(* of read_oct_volume, which looks the OCT chunk up in self.chunk_dict.    *)
(* The container is a sequence of bytes.  np.fromstring is modelled as in  *)
(* the numpy releases that still decode bytes: an empty buffer gives an    *)
(* empty array, whose element 0 is an IndexError, and a buffer that is not *)
(* a multiple of the item size is a ValueError.                            *)
(***************************************************************************)

\* chunks written into a container
MaxChunks == 2
\* calls of get_list_of_file_chunks on one container
MaxScans == 2
\* f.read(15): the length of the file header
HeaderLen == 15
\* b"@IMG_SCAN_03", the chunk FDS.read_oct_volume reads
TagImgScan03 == <<64, 73, 77, 71, 95, 83, 67, 65, 78, 95, 48, 51>>
\* b"@IMG_JPEG", the chunk FDA.read_oct_volume reads
TagImgJpeg == <<64, 73, 77, 71, 95, 74, 80, 69, 71>>
OctTag(r) == IF r = "fds" THEN TagImgScan03 ELSE TagImgJpeg
\* f.read(22) in FDS.read_oct_volume, f.read(25) in FDA.read_oct_volume
OctHeaderLen(r) == IF r = "fds" THEN 22 ELSE 25

\* a 4-byte unsigned size, least significant byte first
UInt32Bytes(n) ==
    <<n % 256, (n \div 256) % 256, (n \div 65536) % 256,
      (n \div 16777216) % 256>>
FromBytesUInt32(b) == b[1] + 256 * b[2] + 65536 * b[3] + 16777216 * b[4]
\* the exception of np.fromstring(b, dtype)[0], None when it yields a value
FromStringError(b, itemsize) ==
    IF Len(b) % itemsize # 0 THEN "ValueError"
    ELSE IF Len(b) = 0 THEN "IndexError"
    ELSE None

\* the bytes of one chunk: name length, name, size, data
ChunkBytes(tag, size) ==
    <<Len(tag)>> \o tag \o UInt32Bytes(size) \o [i \in 1..size |-> 0]
ChunkKinds == {ChunkBytes(tag, size) :
                 tag \in {TagImgScan03, TagImgJpeg}, size \in {0, 2}}
RECURSIVE Concat(_)
Concat(ss) == IF ss = <<>> THEN <<>> ELSE Head(ss) \o Concat(Tail(ss))
\* the complete containers: header, chunks, a zero name length
WholeFiles ==
    {[i \in 1..HeaderLen |-> 70] \o Concat(cs) \o <<0>> :
        cs \in UNION {[1..n -> ChunkKinds] : n \in 0..MaxChunks}}
\* the containers: the complete ones and every one cut short
Files == UNION {{SubSeq(w, 1, k) : k \in 0..Len(w)} : w \in WholeFiles}

\* f.read(n) at cursor pos: the bytes that are there, fewer at end of file
ReadAt(pos, n) ==
    SubSeq(file, pos + 1, IF pos + n < Len(file) THEN pos + n ELSE Len(file))

TopconIdle ==
    /\ reader = "fds"
    /\ file = <<>>
    /\ t_pc = "off"
    /\ f_pos = 0
    /\ eof = FALSE
    /\ chunk_dict = <<>>
    /\ self_chunk_dict = <<>>
    /\ scans = <<>>
    /\ oct_outcome = <<>>

\* open(self.filepath, "rb"): the cursor of a fresh handle
OpenedKeepsCursor(pos) == pos
Opened(pos) == 0

\* the scan ends by an exception: the with block closes f, no catalog is
\* returned
ScanRaise(e) ==
    /\ open_handles' = CloseOnExit(open_handles, "raise")
    /\ scans' = Append(scans, [exc |-> e, returned |-> FALSE, catalog |-> <<>>])
    /\ t_pc' = IF self_chunk_dict = <<>> THEN "new" ELSE "ready"
    /\ UNCHANGED <<self_chunk_dict, eof, chunk_dict>>

\* get_list_of_file_chunks up to its loop: chunk_dict = {}, open, read and
\* parse the 15-byte header (construct raises StreamError on a short read)
ScanOpen ==
    /\ t_pc \in {"new", "ready"}
    /\ Len(scans) < MaxScans
    /\ LET at  == Opened(f_pos)
           raw == ReadAt(at, HeaderLen)
       IN  IF Len(raw) < HeaderLen
           THEN /\ scans' = Append(scans, [exc |-> "StreamError",
                                           returned |-> FALSE,
                                           catalog |-> <<>>])
                /\ f_pos' = at + Len(raw)
                /\ chunk_dict' = <<>>
                /\ open_handles' = CloseOnExit(open_handles + 1, "raise")
                /\ UNCHANGED <<t_pc, eof>>
           ELSE /\ f_pos' = at + HeaderLen
                /\ chunk_dict' = <<>>
                /\ eof' = FALSE
                /\ t_pc' = "scan"
                /\ open_handles' = open_handles + 1
                /\ UNCHANGED scans
    /\ UNCHANGED <<reader, file, self_chunk_dict, oct_outcome>>

\* a seek from the start of the file
SeekSet(pos, offset) == offset
\* f.seek(chunk_size, 1): the cursor after a seek relative to it
SeekCur(pos, offset) == pos + offset

\* one iteration of "while not eof"
ScanChunk ==
    /\ t_pc = "scan"
    /\ ~eof
    /\ LET b1 == ReadAt(f_pos, 1)
       IN  IF FromStringError(b1, 1) # None
           THEN ScanRaise(FromStringError(b1, 1)) /\ f_pos' = f_pos
           ELSE LET chunk_name_size == b1[1]
                    chunk_name == ReadAt(f_pos + 1, chunk_name_size)
                    p2 == f_pos + 1 + Len(chunk_name)
                    b4 == ReadAt(p2, 4)
                    chunk_location == p2 + 4
                IN  IF chunk_name_size = 0
                    THEN /\ eof' = TRUE
                         /\ f_pos' = f_pos + 1
                         /\ UNCHANGED <<t_pc, chunk_dict, scans,
                                        self_chunk_dict, open_handles>>
                    ELSE IF FromStringError(b4, 4) # None
                    THEN /\ ScanRaise(FromStringError(b4, 4))
                         /\ f_pos' = p2 + Len(b4)
                    ELSE /\ f_pos' = SeekCur(chunk_location, FromBytesUInt32(b4))
                         /\ chunk_dict' =
                              DictPut(chunk_dict, chunk_name,
                                      <<chunk_location, FromBytesUInt32(b4)>>)
                         /\ UNCHANGED <<t_pc, eof, scans, self_chunk_dict,
                                        open_handles>>
    /\ UNCHANGED <<reader, file, oct_outcome>>

\* the loop has ended: the with block closes f and chunk_dict is returned;
\* __init__ keeps the catalog of its scan in self.chunk_dict
ScanReturn ==
    /\ t_pc = "scan"
    /\ eof
    /\ open_handles' = CloseOnExit(open_handles, "return")
    /\ scans' = Append(scans, [exc |-> None, returned |-> TRUE,
                               catalog |-> chunk_dict])
    /\ self_chunk_dict' = IF self_chunk_dict = <<>> THEN <<chunk_dict>>
                          ELSE self_chunk_dict
    /\ t_pc' = "ready"
    /\ UNCHANGED <<reader, file, f_pos, eof, chunk_dict, oct_outcome>>

\* read_oct_volume without its test of the catalog: the lookup
\* self.chunk_dict[tag] of a missing tag is a KeyError inside the with block
ReadOctVolumeNoGuard ==
    /\ t_pc = "ready"
    /\ oct_outcome = <<>>
    /\ LET d == self_chunk_dict[1]
       IN  IF ~DictHas(d, OctTag(reader))
           THEN /\ oct_outcome' = <<[exc |-> "KeyError", volumes |-> 0]>>
                /\ UNCHANGED <<t_pc, f_pos, open_handles>>
           ELSE /\ f_pos' = DictGet(d, OctTag(reader))[1]
                /\ open_handles' = open_handles + 1
                /\ t_pc' = "read"
                /\ UNCHANGED oct_outcome
    /\ UNCHANGED <<reader, file, eof, chunk_dict, self_chunk_dict, scans>>

\* read_oct_volume, its entry: without the OCT chunk in self.chunk_dict it
\* raises ValueError before it opens the file; with it, it opens the file
\* and seeks to the chunk
ReadOctVolume ==
    /\ t_pc = "ready"
    /\ oct_outcome = <<>>
    /\ LET d == self_chunk_dict[1]
       IN  IF ~DictHas(d, OctTag(reader))
           THEN /\ oct_outcome' = <<[exc |-> "ValueError", volumes |-> 0]>>
                /\ UNCHANGED <<t_pc, f_pos, open_handles>>
           ELSE /\ f_pos' = DictGet(d, OctTag(reader))[1]
                /\ open_handles' = open_handles + 1
                /\ t_pc' = "read"
                /\ UNCHANGED oct_outcome
    /\ UNCHANGED <<reader, file, eof, chunk_dict, self_chunk_dict, scans>>

\* read_oct_volume behind the seek: the OCT header is read and parsed
\* (StreamError on a short read); what the pixel data and the metadata
\* chunks then give is the container's choice: a volume, a ValueError of the
\* reshape or a TypeError of the date fields.  The with block closes f.
ReadOctHeader ==
    /\ t_pc = "read"
    /\ LET raw == ReadAt(f_pos, OctHeaderLen(reader))
       IN  /\ f_pos' = f_pos + Len(raw)
           /\ IF Len(raw) < OctHeaderLen(reader)
              THEN oct_outcome' = <<[exc |-> "StreamError", volumes |-> 0]>>
              ELSE \E e \in {None, "ValueError", "TypeError"} :
                      oct_outcome' =
                        <<[exc |-> e, volumes |-> IF e = None THEN 1 ELSE 0]>>
    /\ open_handles' =
         CloseOnExit(open_handles,
                     IF oct_outcome'[1].exc = None THEN "return" ELSE "raise")
    /\ t_pc' = "ready"
    /\ UNCHANGED <<reader, file, eof, chunk_dict, self_chunk_dict, scans>>

(***************************************************************************)
(* The Bioptigen reader (src/oct_converter/readers/boct.py):               *)
(* read_oct_volume, which parses the header and the frame stack, computes  *)
(* the logical 4-D shape and creates the buffer, and load_oct_volume,      *)
(* which walks the (time, z) grid and reads one frame per cell.            *)
(* The container gives the header fields and, per on-disk frame, its       *)
(* framelines; a frame's pixels start where the parse recorded them.       *)
(* The reader under src/ always creates the disk-backed buffer; the        *)
(* in-memory buffer its callers select (read_oct_volume(diskbuffered)) is  *)
(* taken from the specification: one contiguous uint16 buffer of the       *)
(* logical shape, filled by the same walk.                                 *)
(***************************************************************************)

\* frames in a container (header.framecount.value)
MaxFrames == 4
\* header.frames.value and header.scans.value
MaxDim == 2
\* calls of load_oct_volume on one object
MaxLoads == 2
\* the bytes of one frame header in front of its pixels
FrameHeaderLen == 6
\* BytesInteger(4) behind the pixels of each frame
FrameTrailerLen == 4
\* np.uint16: bytes per sample
SampleBytes == 2
\* BOCT.bioptigen_scan_type_map
bioptigen_scan_type_map(v) ==
    IF v = 0 THEN "linear" ELSE IF v = 1 THEN "rect" ELSE "rad"
ScanTypes == {0, 1, 3}

\* the headers: frames, scans, framecount, scantype, linelength
BoctHeaders ==
    [frames : 1..MaxDim, scans : 1..MaxDim, framecount : 1..MaxFrames,
     scantype : ScanTypes, linelength : {2}]

\* frame_image of on-disk frame k (0-based): rows, columns, totalpixels
FrameRows(h) == h.linelength
FrameColumns(fl, k) == fl[k + 1]
TotalPixels(h, fl, k) == FrameRows(h) * FrameColumns(fl, k)
\* frame_image.offset (Tell) of frame k, as the parse records it
RECURSIVE FrameOffset(_, _, _)
FrameOffset(h, fl, k) ==
    IF k = 0 THEN FrameHeaderLen
    ELSE FrameOffset(h, fl, k - 1) + SampleBytes * TotalPixels(h, fl, k - 1)
         + FrameTrailerLen + FrameHeaderLen
\* frame_image.end of frame k
FrameEnd(h, fl, k) ==
    FrameOffset(h, fl, k) + SampleBytes * TotalPixels(h, fl, k)
\* the 16-bit samples of frame k in the container
FramePixels(h, fl, k) ==
    [i \in 1..TotalPixels(h, fl, k) |-> 256 * (k + 1) + i]

\* int(a / b) for positive operands
IntDiv(a, b) == a \div b

\* np.resize(a, (rows, cols)), flattened: a repeated until the new size is
\* filled, zeros for an empty a
NpResize(a, n) ==
    IF Len(a) = 0 THEN [i \in 1..n |-> 0]
    ELSE [i \in 1..n |-> a[((i - 1) % Len(a)) + 1]]

\* a fresh buffer of shape (t, z, x, y): one zero-filled frame per cell,
\* cell (t, z) at position t * shape[2] + z + 1
ZeroBuffer(shape) ==
    [c \in 1..(shape[1] * shape[2]) |-> [i \in 1..(shape[3] * shape[4]) |-> 0]]

\* what a buffer of unsigned w-bit samples keeps of a frame
AsUInt(frame, w) == [i \in 1..Len(frame) |-> frame[i] % (2 ^ w)]
\* a dataset created with an 8-bit dtype
DiskStoreUInt8(frame) == AsUInt(frame, 8)
\* self.vol[t, z, :, :] = frame on the dataset of _create_disk_buffer,
\* created with dtype = np.uint16
DiskStore(frame) == AsUInt(frame, 16)
\* the in-memory buffer: contiguous 16-bit samples, zero before the load
MemStore(frame) == AsUInt(frame, 16)
MemBuffer(shape) == ZeroBuffer(shape)

BoctIdle ==
    /\ b_pc = "off"
    /\ hdr = [frames |-> 1, scans |-> 1, framecount |-> 1, scantype |-> 0,
              linelength |-> 2]
    /\ framelines = <<>>
    /\ buffering = "disk"
    /\ volume_shape = <<>>
    /\ indicies = <<>>
    /\ Bscan_geom = <<>>
    /\ vol = <<>>
    /\ mem = <<>>
    /\ loaded = FALSE
    /\ cell = 0
    /\ b_reads = <<>>
    /\ b_loads = 0
    /\ b_outcome = <<>>
    /\ complete = {}

\* a table that numbers the frames in the order of the stack
StackToVolRowMajor(vdim3, vdim4) ==
    [p \in 1..(vdim4 * vdim3) |->
        LET i == (p - 1) \div vdim3
            j == (p - 1) % vdim3
        IN  i * vdim3 + j]
\* [i + j*vdim4 for i in range(0, vdim4) for j in range(0, vdim3)]: entry
\* p + 1 of the sequence is element p of the list
StackToVol(vdim3, vdim4) ==
    [p \in 1..(vdim4 * vdim3) |->
        LET i == (p - 1) \div vdim3
            j == (p - 1) % vdim3
        IN  i + j * vdim4]
\* [i + j*vdim3 for i in range(0, vdim3) for j in range(0, vdim4)]
VolToStack(vdim3, vdim4) ==
    [q \in 1..(vdim3 * vdim4) |->
        LET i == (q - 1) \div vdim4
            j == (q - 1) % vdim4
        IN  i + j * vdim3]

\* read_oct_volume: the header values, the geometry of frame 0, the logical
\* shape, loaded = False and the buffer
BoctReadOctVolume ==
    /\ b_pc \in {"new", "parsed"}
    /\ b_loads < MaxLoads
    /\ \E mode \in {"disk", "memory"} :
        LET framecount  == hdr.frames
            totalframes == hdr.framecount
            Ascans == FrameColumns(framelines, 0)
            depth  == FrameRows(hdr)
            vdim3  == IntDiv(totalframes, framecount)
            vdim4  == framecount
            shape  == <<vdim4, vdim3, Ascans, depth>>
        IN  /\ buffering' = mode
            /\ Bscan_geom' = <<Ascans, depth>>
            /\ volume_shape' = shape
            /\ indicies' = <<[to_vol   |-> StackToVol(vdim3, vdim4),
                             to_stack |-> VolToStack(vdim3, vdim4)]>>
            /\ loaded' = FALSE
            /\ IF mode = "disk"
               THEN vol' = ZeroBuffer(shape) /\ mem' = mem
               ELSE mem' = MemBuffer(shape) /\ vol' = vol
            /\ complete' = complete \ {mode}
    /\ b_pc' = "parsed"
    /\ UNCHANGED <<hdr, framelines, cell, b_reads, b_loads, b_outcome,
                   open_handles>>

\* load_oct_volume up to its loop: np.reshape of the frame list to
\* (vdim4, vdim3) raises ValueError when the sizes differ; then the file is
\* opened
LoadStart ==
    /\ b_pc = "parsed"
    /\ b_loads < MaxLoads
    /\ b_loads' = b_loads + 1
    /\ b_reads' = <<>>
    /\ cell' = 0
    /\ IF volume_shape[1] * volume_shape[2] # hdr.framecount
       THEN /\ b_outcome' = <<[exc |-> "ValueError", returned |-> FALSE]>>
            /\ UNCHANGED <<b_pc, open_handles>>
       ELSE /\ b_outcome' = <<>>
            /\ b_pc' = "loading"
            /\ open_handles' = open_handles + 1
    /\ UNCHANGED <<hdr, framelines, buffering, volume_shape, indicies,
                   Bscan_geom,
                   vol, mem, loaded, complete>>

\* OCTFrame.from_bytes that seeks to the frame's header
FromBytesAtHeader(k) ==
    [frame |-> k,
     offset |-> FrameOffset(hdr, framelines, k) - FrameHeaderLen,
     count |-> TotalPixels(hdr, framelines, k)]

\* OCTFrame.from_bytes: f.seek(self.abs_pos, 0), np.fromfile(count)
FromBytes(k) ==
    [frame |-> k,
     offset |-> FrameOffset(hdr, framelines, k),
     count |-> TotalPixels(hdr, framelines, k)]

\* a walk that indexes the frames by z alone
CellFrameFirstRow(n) == n % volume_shape[2]
\* the on-disk frame of cell n of np.reshape(frames.data, (vdim4, vdim3))
CellFrame(n) == n

\* self.loaded = True placed behind the try statement
LoadedSetAnyway(l) == TRUE
\* self.loaded when the except branch has run: the assignment in the try
\* block was not reached
LoadedOnFailure(l) == l

\* one iteration of the walk: self.vol[t, z, :, :] = frame.load(f, geom);
\* a failing read leaves the try block: the handle is closed, the cause is
\* printed and the volume is returned as it is
LoadFrame ==
    /\ b_pc = "loading"
    /\ cell < hdr.framecount
    /\ \E failed \in BOOLEAN :
        IF failed
        THEN /\ b_outcome' = <<[exc |-> None, returned |-> TRUE]>>
             /\ open_handles' = CloseOnExit(open_handles, "raise")
             /\ b_pc' = "parsed"
             /\ loaded' = LoadedOnFailure(loaded)
             /\ UNCHANGED <<vol, mem, cell, b_reads, complete>>
        ELSE LET k     == CellFrame(cell)
                 frame == NpResize(FramePixels(hdr, framelines, k),
                                   Bscan_geom[1] * Bscan_geom[2])
             IN  /\ b_reads' = Append(b_reads, FromBytes(k))
                 /\ IF buffering = "disk"
                    THEN /\ vol' = [vol EXCEPT ![cell + 1] = DiskStore(frame)]
                         /\ mem' = mem
                    ELSE /\ mem' = [mem EXCEPT ![cell + 1] = MemStore(frame)]
                         /\ vol' = vol
                 /\ cell' = cell + 1
                 /\ UNCHANGED <<b_pc, b_outcome, open_handles, loaded,
                                complete>>
    /\ UNCHANGED <<hdr, framelines, buffering, volume_shape, indicies,
                   Bscan_geom,
                   b_loads>>

\* the walk has ended: f is closed, self.loaded = True, the volume is
\* returned
LoadEnd ==
    /\ b_pc = "loading"
    /\ cell = hdr.framecount
    /\ open_handles' = CloseOnExit(open_handles, "return")
    /\ loaded' = TRUE
    /\ complete' = complete \cup {buffering}
    /\ b_outcome' = <<[exc |-> None, returned |-> TRUE]>>
    /\ b_pc' = "parsed"
    /\ UNCHANGED <<hdr, framelines, buffering, volume_shape, indicies,
                   Bscan_geom,
                   vol, mem, cell, b_reads, b_loads>>

(***************************************************************************)
(* create_dicom_from_oct (src/oct_converter/dicom/dicom.py): the dispatch  *)
(* on the file suffix and, for .oct, the Bioptigen conversion inside a try *)
(* statement with the Optovue conversion as its handler.  What a reader's  *)
(* constructor and read_oct_volume make of the file is the file's choice:  *)
(* a number of volumes or an exception.  The mismatch errors come from     *)
(* the constructor and the parse only; writing a DICOM file can fail with  *)
(* an OSError.                                                             *)
(***************************************************************************)

\* volumes a file holds
MaxVolumes == 2
Suffixes == {"oct", "OCT", "fds", "fda", "img", "e2e", "txt"}
\* str.lower() on the suffixes
Lower(s) == IF s = "OCT" THEN "oct" ELSE s
MismatchErrors == {"InvalidOCTReaderError", "StreamError"}

DicomIdle ==
    /\ d_pc = "off"
    /\ suffix = "oct"
    /\ d_parser = None
    /\ d_exc = None
    /\ d_todo = 0
    /\ d_files = <<>>
    /\ disk = <<>>
    /\ called = <<>>
    /\ d_mismatch = FALSE

\* a handler that catches every exception
CaughtAny(e) == TRUE
\* except (InvalidOCTReaderError, StreamError)
Caught(e) == e \in {"InvalidOCTReaderError", "StreamError"}

\* the if/elif chain on file_suffix
Dispatch ==
    /\ d_pc = "start"
    /\ LET file_suffix == Lower(suffix)
       IN  IF file_suffix = "oct"
           THEN d_pc' = "try" /\ UNCHANGED <<d_parser, d_exc>>
           ELSE IF file_suffix \in {"fds", "fda", "img", "e2e"}
           THEN d_pc' = "convert" /\ d_parser' = file_suffix
                /\ UNCHANGED d_exc
           ELSE d_pc' = "raised" /\ d_exc' = "TypeError"
                /\ UNCHANGED d_parser
    /\ UNCHANGED <<suffix, d_todo, d_files, disk, called, d_mismatch>>

\* an exception e leaves the try statement of the .oct branch: the handler
\* runs create_dicom_from_poct, any other exception goes to the caller
LeaveTry(e) ==
    IF Caught(e)
    THEN d_pc' = "convert" /\ d_parser' = "poct" /\ d_exc' = None
    ELSE d_pc' = "raised" /\ d_exc' = e /\ UNCHANGED d_parser

\* BOCT(input_file), the first statement of the try block
BoctInit ==
    /\ d_pc = "try"
    /\ called' = Append(called, "BOCT")
    /\ \E o \in {"ok", "InvalidOCTReaderError", "StreamError",
                 "FileNotFoundError"} :
          IF o = "ok"
          THEN /\ d_pc' = "convert"
               /\ d_parser' = "boct"
               /\ UNCHANGED <<d_exc, d_mismatch>>
          ELSE /\ LeaveTry(o)
               /\ d_mismatch' = (d_mismatch \/ o \in MismatchErrors)
    /\ UNCHANGED <<suffix, d_todo, d_files, disk>>

\* an exception leaves a create_dicom_from_* call
ConvertRaises(e) ==
    IF d_parser = "boct" THEN LeaveTry(e)
    ELSE d_pc' = "raised" /\ d_exc' = e /\ UNCHANGED d_parser

\* create_dicom_from_<parser> up to its loop over the volumes: the reader is
\* constructed and read_oct_volume called; create_dicom_from_boct and
\* create_dicom_from_e2e raise ValueError when there is nothing to write
Convert ==
    /\ d_pc = "convert"
    /\ called' = Append(called, d_parser)
    /\ \E e \in {None, "FileNotFoundError"} \cup MismatchErrors,
          n \in 0..MaxVolumes :
          IF e = None
          THEN IF d_parser \in {"boct", "e2e"} /\ n = 0
               THEN /\ ConvertRaises("ValueError")
                    /\ UNCHANGED <<d_todo, d_mismatch>>
               ELSE /\ d_todo' = n
                    /\ d_pc' = "write"
                    /\ UNCHANGED <<d_parser, d_exc, d_mismatch>>
          ELSE /\ n = 0
               /\ ConvertRaises(e)
               /\ d_mismatch' =
                    (d_mismatch \/ (d_parser = "boct" /\ e \in MismatchErrors))
               /\ UNCHANGED d_todo
    /\ UNCHANGED <<suffix, d_files, disk>>

\* one iteration of the loop over the volumes: the DICOM file is written
\* and its path appended, or the write raises
WriteFile ==
    /\ d_pc = "write"
    /\ d_todo > 0
    /\ \E ok \in BOOLEAN :
          IF ok
          THEN /\ disk' = Append(disk, <<d_parser, Len(d_files)>>)
               /\ d_files' = Append(d_files, <<d_parser, Len(d_files)>>)
               /\ d_todo' = d_todo - 1
               /\ UNCHANGED <<d_pc, d_parser, d_exc>>
          ELSE /\ ConvertRaises("OSError")
               /\ d_files' = <<>>
               /\ UNCHANGED <<disk, d_todo>>
    /\ UNCHANGED <<suffix, called, d_mismatch>>

\* return files
DicomReturn ==
    /\ d_pc = "write"
    /\ d_todo = 0
    /\ d_pc' = "done"
    /\ UNCHANGED <<suffix, d_parser, d_exc, d_todo, d_files, disk, called,
                   d_mismatch>>

(***************************************************************************)
(* The Optovue reader (src/oct_converter/readers/poct.py): the constructor *)
(* checks that the .oct file and its .txt filespec exist; read_oct_volume  *)
(* parses the filespec and cuts the float32 data into the slices of each   *)
(* scan the filespec lists.  The file system gives the two files, or not.  *)
(***************************************************************************)

\* scans in a filespec
MaxPoctScans == 2
\* float32 values in the .oct file
MaxPoctData == 4
\* the scans a filespec can list: window height, scan length, scan usage
ScanInfos == [height : {1, 2}, length : {1}, number : 0..2]
Filespecs == UNION {[1..n -> ScanInfos] : n \in 0..MaxPoctScans}

PoctIdle ==
    /\ p_pc = "off"
    /\ oct_exists = FALSE
    /\ txt_exists = FALSE
    /\ filespec = <<>>
    /\ p_data = 0
    /\ p_obj = FALSE
    /\ p_exc = None
    /\ p_reads = 0
    /\ p_volumes = <<>>

\* a check that lets every path pass
NeverMissing(exists) == FALSE
\* not self.filepath.exists() / not self.filespec.exists()
Missing(exists) == ~exists

\* POCT.__init__
PoctInit ==
    /\ p_pc = "start"
    /\ IF Missing(oct_exists) \/ Missing(txt_exists)
       THEN p_pc' = "raised" /\ p_exc' = "FileNotFoundError" /\ p_obj' = FALSE
       ELSE p_pc' = "made" /\ p_exc' = None /\ p_obj' = TRUE
    /\ UNCHANGED <<oct_exists, txt_exists, filespec, p_data, p_reads,
                   p_volumes>>

\* len(data[i * n : (i + 1) * n]) for an array of len values
SliceLen(len, i, n) ==
    LET lo == IF i * n < len THEN i * n ELSE len
        hi == IF (i + 1) * n < len THEN (i + 1) * n ELSE len
    IN  hi - lo

\* every slice of the scan can be reshaped to (length, height)
ScanFits(v, len) ==
    \A i \in 0..(v.number - 1) :
        SliceLen(len, i, v.height * v.length) = v.height * v.length

\* POCT.read_oct_volume: one volume per scan of the filespec, each with
\* its num_slices slices; a slice the data cannot fill fails to reshape
PoctReadOctVolume ==
    /\ p_pc = "made"
    /\ IF ~txt_exists \/ ~oct_exists
       THEN /\ p_pc' = "raised"
            /\ p_exc' = "FileNotFoundError"
            /\ UNCHANGED <<p_reads, p_volumes>>
       ELSE IF \A k \in 1..Len(filespec) : ScanFits(filespec[k], p_data)
       THEN /\ p_pc' = "done"
            /\ p_volumes' = [k \in 1..Len(filespec) |-> filespec[k].number]
            /\ p_reads' = p_reads + 2
            /\ UNCHANGED p_exc
       ELSE /\ p_pc' = "raised"
            /\ p_exc' = "ValueError"
            /\ p_reads' = p_reads + 2
            /\ UNCHANGED p_volumes
    /\ UNCHANGED <<oct_exists, txt_exists, filespec, p_data, p_obj>>

(***************************************************************************)
(* Two calls of read_oct_volume side by side: the chunk loop and the       *)
(* returned list of each, over two chunk queues that agree except in       *)
(* chunks of one key, and on reader objects of which the second may have   *)
(* been used for a read before (its patient fields are set).               *)
(***************************************************************************)

\* chunks in each queue
MaxTwinChunks == 2
\* volume_dict after the second pass: a dict over the keys
TwinDicts ==
    {<<>>}
    \cup {<<<<k, v>>>> : k \in VolumeStrings, v \in DirSliceIds}
    \cup {<<<<kv[1], kv[2]>>, <<kv[3], kv[4]>>>> :
            kv \in {x \in VolumeStrings \X DirSliceIds
                            \X VolumeStrings \X DirSliceIds : x[1] # x[3]}}

\* the locals of read_oct_volume when its chunk loop starts
TwinStart(vd, patient) ==
    [vad     |-> PreSize(vd, 1),
     add     |-> <<>>,
     iad     |-> <<>>,
     lat     |-> None,
     latd    |-> <<>>,
     patient |-> patient,
     warned  |-> 0,
     pc      |-> "chunks",
     exc     |-> None]

TwinIdle ==
    /\ twin_pc = "off"
    /\ twin_key = ""
    /\ twin_n = 0
    /\ twin_one = <<>>
    /\ twin_two = <<>>
    /\ twin_out = <<>>

\* one iteration of the chunk loop in each call that is still in its loop
TwinStep ==
    /\ twin_pc = "chunks"
    /\ twin_n < MaxTwinChunks
    /\ twin_one.pc = "chunks" \/ twin_two.pc = "chunks"
    /\ \E c1, c2 \in ChunkInputs :
          /\ c1 = c2 \/ (c1.key = twin_key /\ c2.key = twin_key)
          /\ twin_one' = IF twin_one.pc = "chunks"
                         THEN ChunkBody("oct", twin_one, c1, MaxPage + twin_n + 1)
                         ELSE twin_one
          /\ twin_two' = IF twin_two.pc = "chunks"
                         THEN ChunkBody("oct", twin_two, c2, MaxPage + twin_n + 1)
                         ELSE twin_two
    /\ twin_n' = twin_n + 1
    /\ UNCHANGED <<twin_pc, twin_key, twin_out>>

\* what a call gives its caller: the list, or the exception
TwinOutcome(st) ==
    IF st.pc = "raised" THEN [pc |-> "raised", exc |-> st.exc, result |-> <<>>]
    ELSE FinishOutcome("oct", st.vad, st.add, st.iad, st.patient, st.latd)

\* both calls end
TwinFinish ==
    /\ twin_pc = "chunks"
    /\ \/ twin_n = MaxTwinChunks
       \/ twin_one.pc # "chunks" /\ twin_two.pc # "chunks"
    /\ twin_out' = <<[one |-> TwinOutcome(twin_one),
                      two |-> TwinOutcome(twin_two)]>>
    /\ twin_pc' = "done"
    /\ UNCHANGED <<twin_key, twin_n, twin_one, twin_two>>

(***************************************************************************)
(* unscramble_czm (src/oct_converter/readers/czm_dcm_unscrambler.py):      *)
(* every 7th byte of the frame is XORed with 0x5A, the JP2 marker is       *)
(* looked for, and the frame is put together again from eight slices.      *)
(* A frame is a sequence of bytes; the frames followed here hold filler    *)
(* bytes and at most one marker.                                           *)
(***************************************************************************)

XorKey == 90
XorStride == 7
Jp2Len == 253
Cut23 == 23
Cut276 == 276
Cut763 == 763
Cut993 == 993
Cut1016 == 1016
\* b"\x00\x00\x00\x0C"
Jp2Marker == <<0, 0, 0, 12>>
\* a byte that is no part of a marker, XORed or not
Filler == 1

\* a ^ b on w-bit values
RECURSIVE XorBits(_, _, _)
XorBits(a, b, w) ==
    IF w = 0 THEN 0
    ELSE 2 * XorBits(a \div 2, b \div 2, w - 1) + ((a + b) % 2)

\* "for ii in range(0, len(frame), 7): frame[ii] = frame[ii] ^ 0x5A";
\* entry i + 1 of the sequence is frame[i]
DeXor(frame) ==
    [i \in 1..Len(frame) |->
        IF (i - 1) % XorStride = 0 THEN XorBits(frame[i], XorKey, 8)
        ELSE frame[i]]

\* frame.find(sub): the lowest index sub starts at, -1 without one
Find(frame, sub) ==
    LET at == {i \in 0..(Len(frame) - Len(sub)) :
                  \A k \in 1..Len(sub) : frame[i + k] = sub[k]}
    IN  IF at = {} THEN -1
        ELSE CHOOSE i \in at : \A j \in at : i <= j

\* frame[a:b] for a, b >= 0: both ends are cut to the length of the frame
PySlice(frame, a, b) ==
    LET lo == IF a < Len(frame) THEN a ELSE Len(frame)
        hi == IF b < Len(frame) THEN b ELSE Len(frame)
    IN  IF lo >= hi THEN <<>> ELSE SubSeq(frame, lo + 1, hi)

\* frame[a:]
PySliceFrom(frame, a) == PySlice(frame, a, Len(frame))

\* the eight d.extend(...) calls
Rearranged(frame, jp2_offset) ==
    PySlice(frame, jp2_offset, jp2_offset + Jp2Len)
    \o PySlice(frame, Cut993, Cut1016)
    \o PySlice(frame, Cut276, Cut763)
    \o PySlice(frame, Cut23, Cut276)
    \o PySlice(frame, Cut1016, jp2_offset)
    \o PySlice(frame, 0, Cut23)
    \o PySlice(frame, Cut763, Cut993)
    \o PySliceFrom(frame, jp2_offset + Jp2Len)

\* the lengths of the frames followed
CzmLens == {4, 30, 1016, 1100, 1300, 1700}
\* where a frame holds its marker, apart from 3/5 of its length
CzmOffsets == {0, 1, 7, 23, 276, 763, 993, 1012, 1016, 1020, 1040, 1200}

\* the de-XORed content of a frame of n bytes with the marker at offset m
\* (none for m = -1), and the frame as the DICOM dataset holds it: the XOR
\* is its own inverse
PlainFrame(n, m) ==
    [i \in 1..n |-> IF m >= 0 /\ i - 1 >= m /\ i - 1 < m + 4
                    THEN Jp2Marker[i - m] ELSE Filler]
CzmFrames ==
    UNION {{DeXor(PlainFrame(n, m)) :
              m \in {x \in CzmOffsets \cup {-1, (3 * n) \div 5} : x <= n - 4}} :
           n \in CzmLens}

CzmIdle ==
    /\ z_pc = "off"
    /\ z_frame = <<>>
    /\ z_d = <<>>
    /\ z_src = <<>>
    /\ z_exc = None

\* unscramble_czm(frame); z_src gets the same slices of the byte positions
unscramble_czm ==
    /\ z_pc = "start"
    /\ LET frame  == DeXor(z_frame)
           offset == Find(frame, Jp2Marker)
           d      == Rearranged(frame, offset)
       IN  IF offset = -1
           THEN /\ z_pc' = "raised"
                /\ z_exc' = "ValueError"
                /\ UNCHANGED <<z_d, z_src>>
           ELSE IF Len(d) # Len(frame)
           THEN /\ z_pc' = "raised"
                /\ z_exc' = "AssertionError"
                /\ z_d' = <<>>
                /\ z_src' = Rearranged([i \in 1..Len(frame) |-> i - 1], offset)
           ELSE /\ z_pc' = "done"
                /\ z_exc' = None
                /\ z_d' = d
                /\ z_src' = Rearranged([i \in 1..Len(frame) |-> i - 1], offset)
    /\ UNCHANGED z_frame

\* the state of the operations modelled after create_dicom_from_oct
more_idle ==
    /\ PoctIdle
    /\ records = <<>>
    /\ ranges = <<>>
    /\ TwinIdle
    /\ custom_value = <<>>
    /\ CzmIdle

(***************************************************************************)
(* The specifications.                                                     *)
(***************************************************************************)

Init ==
    /\ power = Pow2_10
    /\ self_patient = Unset
    /\ op \in {"oct", "fundus"}
    /\ npages \in AsmPages
    /\ E2EIdle
    /\ open_handles = 0
    /\ TopconIdle
    /\ BoctIdle
    /\ DicomIdle
    /\ more_idle
    /\ uint16 = 0
    /\ decimal_value = <<>>
    /\ calls = 0
    /\ LUT = {}

Next ==
    \/ (ReadMainDirectory /\ E2EHandle
          /\ UNCHANGED <<power, codec_vars, rest_vars>>)
    \/ (FirstPass /\ E2EHandle
          /\ UNCHANGED <<power, codec_vars, rest_vars>>)
    \/ (FirstPassEnd /\ E2EHandle
          /\ UNCHANGED <<power, codec_vars, rest_vars>>)
    \/ (SeekPage /\ E2EHandle
          /\ UNCHANGED <<power, codec_vars, rest_vars>>)
    \/ (ReadRecord /\ E2EHandle
          /\ UNCHANGED <<power, codec_vars, rest_vars>>)
    \/ (Allocate /\ E2EHandle
          /\ UNCHANGED <<power, codec_vars, rest_vars>>)
    \/ (ChunkStep /\ E2EHandle
          /\ UNCHANGED <<power, codec_vars, rest_vars>>)
    \/ (Finish /\ E2EHandle
          /\ UNCHANGED <<power, codec_vars, rest_vars>>)

\* read_oct_volume and read_fundus_image on a fresh E2E object, over the
\* containers with AsmPages directory pages
Spec == Init /\ [][Next]_vars

InitDir ==
    /\ power = Pow2_10
    /\ self_patient = Unset
    /\ op \in {"oct", "fundus"}
    /\ npages = MaxPage
    /\ E2EIdle
    /\ open_handles = 0
    /\ TopconIdle
    /\ BoctIdle
    /\ DicomIdle
    /\ more_idle
    /\ uint16 = 0
    /\ decimal_value = <<>>
    /\ calls = 0
    /\ LUT = {}

NextDir ==
    \/ (ReadMainDirectory /\ E2EHandle
          /\ UNCHANGED <<power, codec_vars, rest_vars>>)
    \/ (FirstPass /\ E2EHandle
          /\ UNCHANGED <<power, codec_vars, rest_vars>>)
    \/ (FirstPassEnd /\ E2EHandle
          /\ UNCHANGED <<power, codec_vars, rest_vars>>)
    \/ (SeekPage /\ E2EHandle
          /\ UNCHANGED <<power, codec_vars, rest_vars>>)
    \/ (ReadRecord /\ E2EHandle
          /\ UNCHANGED <<power, codec_vars, rest_vars>>)
    \/ (Allocate /\ E2EHandle
          /\ UNCHANGED <<power, codec_vars, rest_vars>>)

\* the two directory passes of both operations, up to the chunk loop, over
\* the containers with MaxPage directory pages
SpecDir == InitDir /\ [][NextDir]_vars

InitCodec ==
    /\ power = Pow2_10
    /\ self_patient = Unset
    /\ CodecInit
    /\ op = "oct"
    /\ npages \in AsmPages
    /\ E2EIdle
    /\ open_handles = 0
    /\ TopconIdle
    /\ BoctIdle
    /\ DicomIdle
    /\ more_idle

NextCodec ==
    \/ (Decode /\ UNCHANGED <<power, self_patient, e2e_vars, open_handles,
                             rest_vars>>)
    \/ (MakeLut /\ UNCHANGED <<power, self_patient, e2e_vars, open_handles,
                             rest_vars>>)

\* the codec on each of the 65,536 inputs
SpecCodec == InitCodec /\ [][NextCodec]_vars

InitScan ==
    /\ power = Pow2_10
    /\ self_patient = Unset
    /\ uint16 = 0
    /\ decimal_value = <<>>
    /\ calls = 0
    /\ LUT = {}
    /\ op = "oct"
    /\ npages \in AsmPages
    /\ E2EIdle
    /\ open_handles = 0
    /\ reader \in {"fds", "fda"}
    /\ file \in Files
    /\ t_pc = "new"
    /\ f_pos = 0
    /\ eof = FALSE
    /\ chunk_dict = <<>>
    /\ self_chunk_dict = <<>>
    /\ scans = <<>>
    /\ oct_outcome = <<>>
    /\ BoctIdle
    /\ DicomIdle
    /\ more_idle

NextScan ==
    \/ (ScanOpen /\ UNCHANGED <<power, self_patient, codec_vars, e2e_vars,
                              boct_vars, dicom_vars, more_vars>>)
    \/ (ScanChunk /\ UNCHANGED <<power, self_patient, codec_vars, e2e_vars,
                              boct_vars, dicom_vars, more_vars>>)
    \/ (ScanReturn /\ UNCHANGED <<power, self_patient, codec_vars, e2e_vars,
                              boct_vars, dicom_vars, more_vars>>)
    \/ (ReadOctVolume /\ UNCHANGED <<power, self_patient, codec_vars, e2e_vars,
                              boct_vars, dicom_vars, more_vars>>)
    \/ (ReadOctHeader /\ UNCHANGED <<power, self_patient, codec_vars, e2e_vars,
                              boct_vars, dicom_vars, more_vars>>)

\* FDS and FDA objects over the containers Files: the scan of __init__,
\* further scans and read_oct_volume
SpecScan == InitScan /\ [][NextScan]_vars

InitBoct ==
    /\ power = Pow2_10
    /\ self_patient = Unset
    /\ uint16 = 0
    /\ decimal_value = <<>>
    /\ calls = 0
    /\ LUT = {}
    /\ op = "oct"
    /\ npages \in AsmPages
    /\ E2EIdle
    /\ open_handles = 0
    /\ TopconIdle
    /\ b_pc = "new"
    /\ hdr \in BoctHeaders
    /\ framelines \in [1..hdr.framecount -> {1, 2}]
    /\ buffering = "disk"
    /\ volume_shape = <<>>
    /\ indicies = <<>>
    /\ Bscan_geom = <<>>
    /\ vol = <<>>
    /\ mem = <<>>
    /\ loaded = FALSE
    /\ cell = 0
    /\ b_reads = <<>>
    /\ b_loads = 0
    /\ b_outcome = <<>>
    /\ complete = {}
    /\ DicomIdle
    /\ more_idle

NextBoct ==
    \/ (BoctReadOctVolume
          /\ UNCHANGED <<power, self_patient, codec_vars, e2e_vars,
                         topcon_vars, dicom_vars, more_vars>>)
    \/ (LoadStart
          /\ UNCHANGED <<power, self_patient, codec_vars, e2e_vars,
                         topcon_vars, dicom_vars, more_vars>>)
    \/ (LoadFrame
          /\ UNCHANGED <<power, self_patient, codec_vars, e2e_vars,
                         topcon_vars, dicom_vars, more_vars>>)
    \/ (LoadEnd
          /\ UNCHANGED <<power, self_patient, codec_vars, e2e_vars,
                         topcon_vars, dicom_vars, more_vars>>)

\* BOCT objects over the containers of BoctHeaders: read_oct_volume and
\* load_oct_volume, with either buffer
SpecBoct == InitBoct /\ [][NextBoct]_vars

InitAll == Init \/ InitScan \/ InitBoct

NextAll ==
    \/ (t_pc = "off" /\ b_pc = "off" /\ Next)
    \/ NextScan
    \/ NextBoct

\* one reader at work on one container: an E2E, an FDS or FDA, or a BOCT
\* object
SpecAll == InitAll /\ [][NextAll]_vars

InitDicom ==
    /\ power = Pow2_10
    /\ self_patient = Unset
    /\ uint16 = 0
    /\ decimal_value = <<>>
    /\ calls = 0
    /\ LUT = {}
    /\ op = "oct"
    /\ npages \in AsmPages
    /\ E2EIdle
    /\ open_handles = 0
    /\ TopconIdle
    /\ BoctIdle
    /\ d_pc = "start"
    /\ suffix \in Suffixes
    /\ d_parser = None
    /\ d_exc = None
    /\ d_todo = 0
    /\ d_files = <<>>
    /\ disk = <<>>
    /\ called = <<>>
    /\ d_mismatch = FALSE
    /\ more_idle

dicom_frame == <<power, self_patient, codec_vars, e2e_vars, open_handles,
                 topcon_vars, boct_vars, more_vars>>

NextDicom ==
    \/ (Dispatch /\ UNCHANGED dicom_frame)
    \/ (BoctInit /\ UNCHANGED dicom_frame)
    \/ (Convert /\ UNCHANGED dicom_frame)
    \/ (WriteFile /\ UNCHANGED dicom_frame)
    \/ (DicomReturn /\ UNCHANGED dicom_frame)

\* one call of create_dicom_from_oct
SpecDicom == InitDicom /\ [][NextDicom]_vars

\* the variables of the readers and conversions modelled above
base_vars == <<power, self_patient, codec_vars, e2e_vars, open_handles,
               topcon_vars, boct_vars, dicom_vars>>

BaseIdle ==
    /\ power = Pow2_10
    /\ self_patient = Unset
    /\ uint16 = 0
    /\ decimal_value = <<>>
    /\ calls = 0
    /\ LUT = {}
    /\ op = "oct"
    /\ npages \in AsmPages
    /\ E2EIdle
    /\ open_handles = 0
    /\ TopconIdle
    /\ BoctIdle
    /\ DicomIdle

InitPoct ==
    /\ BaseIdle
    /\ p_pc = "start"
    /\ oct_exists \in BOOLEAN
    /\ txt_exists \in BOOLEAN
    /\ filespec \in Filespecs
    /\ p_data \in 0..MaxPoctData
    /\ p_obj = FALSE
    /\ p_exc = None
    /\ p_reads = 0
    /\ p_volumes = <<>>
    /\ records = <<>>
    /\ ranges = <<>>
    /\ TwinIdle
    /\ custom_value = <<>>
    /\ CzmIdle

NextPoct ==
    \/ (PoctInit /\ UNCHANGED <<base_vars, records, ranges, twin_vars, custom_value,
                            czm_vars>>)
    \/ (PoctReadOctVolume /\ UNCHANGED <<base_vars, records, ranges, twin_vars, custom_value,
                            czm_vars>>)

\* one Optovue reader: construction, then read_oct_volume
SpecPoct == InitPoct /\ [][NextPoct]_vars

\* directory pages of the containers the second pass is followed over
PassPages == 2
\* sub-directory records the second pass is followed over
MaxRecords == 3

InitPass ==
    /\ power = Pow2_10
    /\ self_patient = Unset
    /\ op \in {"oct", "fundus"}
    /\ npages \in 1..PassPages
    /\ E2EIdle
    /\ open_handles = 0
    /\ TopconIdle
    /\ BoctIdle
    /\ DicomIdle
    /\ more_idle
    /\ uint16 = 0
    /\ decimal_value = <<>>
    /\ calls = 0
    /\ LUT = {}

pass_frame == <<power, codec_vars, topcon_vars, boct_vars, dicom_vars,
                poct_vars, ranges, twin_vars, custom_value, czm_vars>>

NextPass ==
    \/ (ReadMainDirectory /\ E2EHandle /\ UNCHANGED <<pass_frame, records>>)
    \/ (FirstPass /\ E2EHandle /\ UNCHANGED <<pass_frame, records>>)
    \/ (FirstPassEnd /\ E2EHandle /\ UNCHANGED <<pass_frame, records>>)
    \/ (SeekPage /\ E2EHandle /\ UNCHANGED <<pass_frame, records>>)
    \/ (\E inp \in SubDirInputs :
          /\ Len(records) < MaxRecords
          /\ ReadRecordOf(inp)
          /\ records' = Append(records,
                SubDirRecord(inp, visited[Len(visited)], Len(chunk_stack)))
          /\ E2EHandle
          /\ UNCHANGED pass_frame)
    \/ (Allocate /\ E2EHandle /\ UNCHANGED <<pass_frame, records>>)

\* the two directory passes, with the records the second pass reads kept
SpecPass == InitPass /\ [][NextPass]_vars

NextSlots ==
    \/ NextPass
    \/ (ChunkStep /\ E2EHandle /\ UNCHANGED <<pass_frame, records>>)
    \/ (Finish /\ E2EHandle /\ UNCHANGED <<pass_frame, records>>)

\* read_oct_volume and read_fundus_image over the containers with AsmPages
\* directory pages, with the records the second pass reads kept
SpecSlots == Init /\ [][NextSlots]_vars

InitRanges ==
    /\ BaseIdle
    /\ more_idle

catalog_frame == <<power, codec_vars, topcon_vars, boct_vars, dicom_vars,
                   poct_vars, records, twin_vars, custom_value, czm_vars>>

NextRanges ==
    \/ (ReadMainDirectory /\ E2EHandle /\ UNCHANGED <<catalog_frame, ranges>>)
    \/ (FirstPass /\ E2EHandle /\ UNCHANGED <<catalog_frame, ranges>>)
    \/ (FirstPassEnd /\ E2EHandle /\ UNCHANGED <<catalog_frame, ranges>>)
    \/ (SeekPage /\ E2EHandle /\ UNCHANGED <<catalog_frame, ranges>>)
    \/ (ReadRangeRecord /\ E2EHandle /\ UNCHANGED catalog_frame)
    \/ (Allocate /\ E2EHandle /\ UNCHANGED <<catalog_frame, ranges>>)

InitCatalog == InitRanges \/ InitScan

NextCatalog ==
    \/ (t_pc = "off" /\ NextRanges)
    \/ NextScan

\* the catalog of one container: the chunk queue of an E2E directory, or
\* the chunk_dict of a Topcon scan
SpecCatalog == InitCatalog /\ [][NextCatalog]_vars

InitTwin ==
    /\ BaseIdle
    /\ PoctIdle
    /\ records = <<>>
    /\ ranges = <<>>
    /\ twin_pc = "chunks"
    /\ twin_key \in VolumeStrings
    /\ twin_n = 0
    /\ \E vd \in TwinDicts, earlier \in {Unset, "P1"} :
          /\ twin_one = TwinStart(vd, Unset)
          /\ twin_two = TwinStart(vd, earlier)
    /\ twin_out = <<>>
    /\ custom_value = <<>>
    /\ CzmIdle

NextTwin ==
    \/ (TwinStep /\ UNCHANGED <<base_vars, poct_vars, records, ranges, custom_value,
                          czm_vars>>)
    \/ (TwinFinish /\ UNCHANGED <<base_vars, poct_vars, records, ranges, custom_value,
                          czm_vars>>)

\* two calls of read_oct_volume whose containers agree outside one key
SpecTwin == InitTwin /\ [][NextTwin]_vars

float_frame == <<power, self_patient, e2e_vars, open_handles, topcon_vars,
                 boct_vars, dicom_vars, poct_vars, records, ranges, twin_vars,
                 czm_vars>>

NextFloat ==
    \/ (Decode /\ UNCHANGED <<float_frame, custom_value>>)
    \/ (MakeLut /\ UNCHANGED <<float_frame, custom_value>>)
    \/ (ReadCustomFloat /\ UNCHANGED float_frame)

\* the two decoders on each of the 65,536 samples
SpecFloat == InitCodec /\ [][NextFloat]_vars

\* the headers the index tables are followed over: up to MaxIdxDim
\* repeats and MaxIdxFrames frames on disk
MaxIdxDim == 3
MaxIdxFrames == 6
IndexHeaders ==
    [frames : 1..MaxIdxDim, scans : {1}, framecount : 1..MaxIdxFrames,
     scantype : {0}, linelength : {2}]

InitIndex ==
    /\ power = Pow2_10
    /\ self_patient = Unset
    /\ uint16 = 0
    /\ decimal_value = <<>>
    /\ calls = 0
    /\ LUT = {}
    /\ op = "oct"
    /\ npages \in AsmPages
    /\ E2EIdle
    /\ open_handles = 0
    /\ TopconIdle
    /\ b_pc = "new"
    /\ hdr \in IndexHeaders
    /\ framelines = [k \in 1..hdr.framecount |-> 1]
    /\ buffering = "disk"
    /\ volume_shape = <<>>
    /\ indicies = <<>>
    /\ Bscan_geom = <<>>
    /\ vol = <<>>
    /\ mem = <<>>
    /\ loaded = FALSE
    /\ cell = 0
    /\ b_reads = <<>>
    /\ b_loads = 0
    /\ b_outcome = <<>>
    /\ complete = {}
    /\ DicomIdle
    /\ more_idle

\* the Bioptigen reader over containers with more frames, all of one size
SpecIndex == InitIndex /\ [][NextBoct]_vars

\* the Topcon readers with every enabled step eventually taken: a scan
\* that can take its next iteration, or return, does so
SpecScanLive == InitScan /\ [][NextScan]_vars /\ WF_vars(NextScan)

InitCzm ==
    /\ BaseIdle
    /\ PoctIdle
    /\ records = <<>>
    /\ ranges = <<>>
    /\ TwinIdle
    /\ custom_value = <<>>
    /\ z_pc = "start"
    /\ z_frame \in CzmFrames
    /\ z_d = <<>>
    /\ z_src = <<>>
    /\ z_exc = None

NextCzm ==
    unscramble_czm /\ UNCHANGED <<base_vars, poct_vars, records, ranges,
                                  twin_vars, custom_value>>

\* one call of unscramble_czm
SpecCzm == InitCzm /\ [][NextCzm]_vars

(***************************************************************************)
(* Properties.                                                             *)
(***************************************************************************)

\* C1: every decode of a 16-bit input x, by a call of uint16_to_ufloat16 or
\* as the entry the lookup table holds at index x, equals the closed form
\* (1 + m/1024) * 2^(e - 63) of the byte-wise bit-reversed string, whatever
\* was decoded before; self.power, the only state the decoder reads, stays
\* pow(2, 10).
C1_DecodeIsClosedForm ==
    /\ power = Pow2_10
    /\ Len(decimal_value) > 0 => decimal_value[1] = ClosedForm(uint16)
    /\ \A e \in LUT : e[1] = uint16 /\ e[2] = ClosedForm(e[1])

\* an input with mantissa and exponent bits set has been decoded by calls
\* and then by the table build
C1_Witness ==
    /\ uint16 = 52851
    /\ calls = MaxCalls
    /\ LUT # {}
    /\ decimal_value[1].exp # -ExpBias
    /\ decimal_value[1].num # decimal_value[1].den

\* the decoded image chunks of key k, in arrival order
DecodedOf(k) == SelectSeq(decoded, LAMBDA d : d.key = k)
\* the images of a sequence of decoded chunks
ImagesOf(ds) == [i \in 1..Len(ds) |-> Image(ds[i].start)]
\* the positions of the returned list that carry key k
ReturnedFor(k) == {i \in 1..Len(result) : result[i].volume_id = k}
\* the loop was left by "break"
Broke ==
    /\ chunk.type = TypeImage
    /\ chunk.width * chunk.height = 0
    /\ op = "oct" => chunk.ind = 1

\* C2: when the directory and the decoded pixel chunks of a key carry the
\* slice-ids 2, 4, ..., 2n (each once, all chunks decoded), read_oct_volume
\* returns exactly one volume for that key, of length n.
C2_OneVolumeOfLengthN ==
    (pc = "done" /\ op = "oct" /\ warned = 0 /\ ~Broke) =>
        \A k \in VolumeStrings :
            LET ds == DecodedOf(k)
                n  == Len(ds)
            IN  ( /\ n > 0
                  /\ DictHas(volume_dict, k)
                  /\ DictGet(volume_dict, k) = 2 * n
                  /\ {ds[i].slice_id : i \in 1..n} = {2 * j : j \in 1..n} )
                => /\ Cardinality(ReturnedFor(k)) = 1
                   /\ \A i \in ReturnedFor(k) : result[i].num_slices = n

\* C3: when read_oct_volume has ended, every key without a pre-sized slot
\* array for which pixel chunks were decoded has exactly one returned volume,
\* made of those chunks' images in arrival order.
C3_OverflowReturned ==
    (pc \in {"done", "raised"} /\ op = "oct") =>
        \A k \in VolumeStrings :
            (~DictHas(volume_array_dict, k) /\ Len(DecodedOf(k)) > 0)
            => /\ Cardinality(ReturnedFor(k)) = 1
               /\ \A i \in ReturnedFor(k) :
                     result[i].volume = ImagesOf(DecodedOf(k))

\* the chunk is an OCT pixel chunk whose samples reshape
DecodesOct(c) ==
    /\ c.type = TypeImage
    /\ c.ind = 1
    /\ c.width * c.height # 0
    /\ c.avail >= c.width * c.height
\* the slot index floor(slice_id / 2) - 1
SlotIndex(c) == (c.slice_id \div 2) - 1
\* the loop iteration that reads the next queued chunk
Iteration == pc = "chunks" /\ idx' = idx + 1

\* C4: a decoded pixel chunk whose key has a slot array but whose index
\* floor(slice_id/2) - 1 lies outside it is appended to the key's overflow
\* list; no slot is written and nothing is raised.
C4_OutOfRangeToOverflow ==
    [][ ( /\ Iteration
          /\ op = "oct"
          /\ DecodesOct(chunk')
          /\ DictHas(volume_array_dict, chunk'.key)
          /\ SlotIndex(chunk') \notin
                0..(Len(DictGet(volume_array_dict, chunk'.key)) - 1) )
        => ( /\ pc' # "raised"
             /\ volume_array_dict' = volume_array_dict
             /\ DictHas(volume_array_dict_additional', chunk'.key)
             /\ DictGet(volume_array_dict_additional', chunk'.key) =
                  Append(IF DictHas(volume_array_dict_additional, chunk'.key)
                         THEN DictGet(volume_array_dict_additional, chunk'.key)
                         ELSE <<>>,
                         Image(chunk_stack[idx + 1])) ) ]_vars

\* the filled slots of a slot array, in slot order
Filled(slots) == SelectSeq(slots, LAMBDA x : ~IsInt(x))

\* C5: no returned volume holds a sentinel, and every key with a filled slot
\* is returned as the volume of exactly its filled slots, in slot order.
C5_SentinelsRemoved ==
    (pc = "done" /\ op = "oct") =>
        /\ \A i \in 1..Len(result) :
              \A j \in 1..Len(result[i].volume) : ~IsInt(result[i].volume[j])
        /\ \A k \in DictKeys(volume_array_dict) :
              Len(Filled(DictGet(volume_array_dict, k))) > 0
              => \E i \in ReturnedFor(k) :
                    result[i].volume = Filled(DictGet(volume_array_dict, k))

\* the chunk is an OCT pixel chunk whose samples do not reshape to the
\* declared width x height
BadReshape(c) ==
    /\ c.type = TypeImage
    /\ c.ind = 1
    /\ c.width * c.height # 0
    /\ c.avail < c.width * c.height

\* C6: the iteration that meets a pixel chunk whose samples do not reshape
\* issues one warning, stores nothing, changes none of the dicts, the
\* laterality or the patient fields, and leaves the loop running on the
\* unchanged queue: what follows is assembled as without that chunk.
C6_BadReshapeSkipped ==
    [][ (Iteration /\ op = "oct" /\ BadReshape(chunk'))
        => ( /\ warned' = warned + 1
             /\ pc' = "chunks"
             /\ exc' = None
             /\ UNCHANGED <<volume_array_dict, volume_array_dict_additional,
                            image_array_dict, laterality, laterality_dict,
                            self_patient, decoded, chunk_stack, volume_dict,
                            result>> ) ]_vars

\* a chunk was skipped with a warning and a later chunk has been stored
C6_Witness ==
    /\ op = "oct"
    /\ pc = "chunks"
    /\ warned > 0
    /\ idx > 1
    /\ Len(decoded) > 0
    /\ decoded[Len(decoded)].start = chunk_stack[idx]
    /\ \E k \in DictKeys(volume_array_dict) :
          \E j \in 1..Len(DictGet(volume_array_dict, k)) :
             DictGet(volume_array_dict, k)[j] = Image(chunk_stack[idx])

\* C7: read_oct_volume and read_fundus_image raise no exception, whatever
\* the chunks hold.
C7_NeverRaises == pc # "raised"

\* C8: every returned volume or fundus image carries the laterality and the
\* patient of the metadata chunks last seen for its own key before its image
\* chunks.
C8_OwnKeyMetadata ==
    pc = "done" =>
        \A i \in 1..Len(result) :
            /\ result[i].laterality = own_lat[result[i].volume_id]
            /\ result[i].patient = own_patient[result[i].volume_id]

\* the pages reached from offset p by following prev until 0
RECURSIVE Chain(_, _)
Chain(p, fuel) ==
    IF p = 0 \/ fuel = 0 \/ p \notin DOMAIN dir_prev THEN <<>>
    ELSE <<p>> \o Chain(dir_prev[p], fuel - 1)

\* C9: once the first pass has ended, directory_stack is the prev chain that
\* starts at the main directory's current pointer, in chain order, and its
\* last page is the one whose prev is 0; the second pass seeks to the same
\* pages in the same order.
C9_ChainOrder ==
    /\ pc \notin {"start", "walk"} =>
          /\ directory_stack = Chain(main_directory, npages)
          /\ Len(directory_stack) > 0 =>
                dir_prev[directory_stack[Len(directory_stack)]] = 0
          /\ visited = SubSeq(directory_stack, 1, Len(visited))
    /\ pc = "chunks" => visited = directory_stack

\* a chain of three pages has been walked by both passes
C9_Witness ==
    /\ pc = "chunks"
    /\ Len(directory_stack) = 3
    /\ visited = directory_stack

\* C10: no directory page is pushed twice by the first pass (the walk along
\* prev reaches 0 before it comes back to a page).
C10_NoPageTwice ==
    \A i \in 1..Len(directory_stack) : \A j \in 1..Len(directory_stack) :
        i # j => directory_stack[i] # directory_stack[j]

\* C11: every scan of get_list_of_file_chunks on the same unchanged
\* container has the outcome of the first one: the same catalog (the same
\* tags in the same order, each with the same offset and size), or the same
\* exception.
C11_RescanSameCatalog ==
    \A i \in 1..Len(scans) : scans[i] = scans[1]

\* a container with two different tags has been scanned twice
C11_Witness ==
    /\ Len(scans) = 2
    /\ scans[2].returned
    /\ Len(scans[2].catalog) = 2

\* the first byte behind the 15-byte header is a name length of 0
EmptyContainer == Len(file) > HeaderLen /\ file[HeaderLen + 1] = 0

RecordsOf(d, tag) == IF DictHas(d, tag) THEN <<DictGet(d, tag)>> ELSE <<>>
IsPrefix(a, b) == Len(a) <= Len(b) /\ a = SubSeq(b, 1, Len(a))

\* C13: a scanned chunk adds its (offset, size) record to the records the
\* catalog keeps for its tag and removes none: a tag that occurs k times
\* has all k records, in stream order.
C13_RepeatedTagsKept ==
    [][ (t_pc = "scan" /\ t_pc' = "scan")
        => \A tag \in DictKeys(chunk_dict) \cup DictKeys(chunk_dict') :
              IsPrefix(RecordsOf(chunk_dict, tag),
                       RecordsOf(chunk_dict', tag)) ]_vars

\* the stream behind the header ends before the terminating zero name length
Truncated == Len(file) >= HeaderLen /\ file \notin WholeFiles

\* C14: on a container that ends before the terminating zero name length,
\* every scan ends with a FormatError and returns no catalog.
C14_TruncatedIsFormatError ==
    Truncated =>
        \A i \in 1..Len(scans) :
            scans[i].exc = "FormatError" /\ ~scans[i].returned

\* C15: after read_oct_volume on a container that holds F * S frames, with
\* frames = F, scans = S and the geometry (Ascans, depth) of frame 0, the
\* logical shape is (F * S, 1, Ascans, depth) for a linear scan and
\* (F, S, Ascans, depth) for a rectangular or radial one.
C15_ShapeByScanType ==
    (volume_shape # <<>> /\ hdr.framecount = hdr.frames * hdr.scans) =>
        LET F == hdr.frames
            S == hdr.scans
            Ascans == FrameColumns(framelines, 0)
            depth == FrameRows(hdr)
        IN  IF bioptigen_scan_type_map(hdr.scantype) = "linear"
            THEN volume_shape = <<F * S, 1, Ascans, depth>>
            ELSE volume_shape = <<F, S, Ascans, depth>>

Buffer == IF buffering = "disk" THEN vol ELSE mem
\* the frame a load places in cell c (1-based): on-disk frame c - 1, resized
\* to the geometry of frame 0
PlacedFrame(c) ==
    AsUInt(NpResize(FramePixels(hdr, framelines, c - 1),
                    Bscan_geom[1] * Bscan_geom[2]), 16)
\* the step in which a read of load_oct_volume fails
ReadFails == b_pc = "loading" /\ b_pc' # "loading" /\ cell < hdr.framecount

\* C17: while a load runs, every cell walked so far holds its frame; a
\* failing read ends the walk (no further read), the operation returns the
\* volume without raising, the buffer is as it was and the loaded flag is
\* not set; the flag is true only when every cell holds its frame.
C17_PartialLoad ==
    /\ [](b_pc = "loading" =>
            \A c \in 1..cell : Buffer[c] = PlacedFrame(c))
    /\ [](loaded =>
            \A c \in 1..hdr.framecount : Buffer[c] = PlacedFrame(c))
    /\ [][ ReadFails =>
             /\ b_outcome' = <<[exc |-> None, returned |-> TRUE]>>
             /\ b_reads' = b_reads
             /\ Buffer' = Buffer
             /\ loaded' = loaded ]_vars

\* a load has failed after it had placed a frame
C17_Witness ==
    /\ b_pc = "parsed"
    /\ b_outcome = <<[exc |-> None, returned |-> TRUE]>>
    /\ ~loaded
    /\ cell > 0
    /\ cell < hdr.framecount
    /\ Buffer[cell] = PlacedFrame(cell)

\* the load of the object ran to its end
LoadComplete == b_pc = "parsed" /\ b_outcome # <<>> /\ cell = hdr.framecount
\* the reads of the load are one per on-disk frame, each at the frame's
\* recorded offset
OneReadPerFrame ==
    /\ \A i \in 1..Len(b_reads) : \A j \in 1..Len(b_reads) :
          i # j => b_reads[i].frame # b_reads[j].frame
    /\ \A i \in 1..Len(b_reads) :
          /\ b_reads[i].frame \in 0..(hdr.framecount - 1)
          /\ b_reads[i].offset =
               FrameOffset(hdr, framelines, b_reads[i].frame)
    /\ LoadComplete =>
          /\ cell = volume_shape[1] * volume_shape[2]
          /\ Len(b_reads) = hdr.framecount

\* C18: a load visits every (time, z) cell once and reads every on-disk
\* frame once, from the frame's recorded offset, and each read takes
\* exactly Ascans * depth samples, inside the frame's recorded byte range.
C18_ReadsAscansTimesDepth ==
    b_pc \in {"loading", "parsed"} =>
        /\ OneReadPerFrame
        /\ \A i \in 1..Len(b_reads) :
              /\ b_reads[i].count = Bscan_geom[1] * Bscan_geom[2]
              /\ b_reads[i].offset + SampleBytes * b_reads[i].count
                    <= FrameEnd(hdr, framelines, b_reads[i].frame)

\* C18, amended: a load visits every (time, z) cell once and reads every
\* on-disk frame once, from the frame's recorded offset, and each read takes
\* exactly the frame's recorded totalpixels = linelength * framelines
\* samples (Ascans * depth for a frame with the framelines of frame 0),
\* which is the frame's recorded byte range [offset, end).
C18_ReadsRecordedRange ==
    b_pc \in {"loading", "parsed"} =>
        /\ OneReadPerFrame
        /\ \A i \in 1..Len(b_reads) :
              LET k == b_reads[i].frame
              IN  /\ b_reads[i].count = TotalPixels(hdr, framelines, k)
                  /\ b_reads[i].offset + SampleBytes * b_reads[i].count
                        = FrameEnd(hdr, framelines, k)
                  /\ FrameColumns(framelines, k) = FrameColumns(framelines, 0)
                        => b_reads[i].count = Bscan_geom[1] * Bscan_geom[2]

\* a load has read a container whose frames differ in framelines to its end
C18_Witness ==
    /\ LoadComplete
    /\ Len(b_reads) = MaxFrames
    /\ \E i \in 1..Len(b_reads) :
          b_reads[i].count # Bscan_geom[1] * Bscan_geom[2]

\* control is inside the with block of a read operation
InOperation ==
    \/ pc \in {"walk", "scan", "chunks", "finish"}
    \/ t_pc \in {"scan", "read"}
    \/ b_pc = "loading"

\* C19: a read operation holds exactly one handle on the container while
\* it runs, and none is open once it has ended, by a return, by leaving its
\* loop early or by an exception, or between two operations.
C19_HandleClosedOnExit ==
    open_handles = IF InOperation THEN 1 ELSE 0

\* an operation has ended by an exception raised inside its with block
C19_Witness ==
    /\ open_handles = 0
    /\ \/ pc = "raised"
       \/ Len(scans) > 0 /\ scans[Len(scans)].exc = "IndexError"
       \/ b_pc = "parsed" /\ b_outcome # <<>> /\ cell < hdr.framecount

\* the conversions that wrote a file to output_dir
Producers == {disk[i][1] : i \in 1..Len(disk)}
\* the handler of the try statement has called create_dicom_from_poct
FellBack == d_parser = "poct"

C21_MissingFileRaises ==
    (p_pc \notin {"off", "start"} /\ (~oct_exists \/ ~txt_exists)) =>
        /\ p_pc = "raised"
        /\ p_exc = "FileNotFoundError"
        /\ p_reads = 0
        /\ ~p_obj
        /\ p_volumes = <<>>

\* the constructor has run on an .oct file whose filespec is missing
C21_Witness ==
    /\ p_pc = "raised"
    /\ oct_exists
    /\ ~txt_exists
    /\ p_exc = "FileNotFoundError"

\* the records of key k read so far
RecordsOfKey(k) == {i \in 1..Len(records) : records[i].key = k}
\* the largest slice_id among the records of key k
MaxSliceId(k) ==
    CHOOSE m \in {records[i].slice_id : i \in RecordsOfKey(k)} :
        \A i \in RecordsOfKey(k) : records[i].slice_id <= m
\* the start pointers of the records in r with start > pos, in order
RECURSIVE DataPointers(_)
DataPointers(r) ==
    IF r = <<>> THEN <<>>
    ELSE IF r[1].start > r[1].pos
         THEN <<r[1].start>> \o DataPointers(Tail(r))
         ELSE DataPointers(Tail(r))

\* C22: throughout and after the second pass of read_oct_volume,
\* volume_dict has an entry for exactly the keys of the records read and
\* the entry is the largest slice_id (in half units) of the key's records,
\* and chunk_stack holds exactly the records with start > pos, once each,
\* in the order they were read.
C22_MaximaAndQueue ==
    pc \in {"scan", "chunks"} =>
        /\ chunk_stack = DataPointers(records)
        /\ (op = "oct" =>
              \A k \in VolumeStrings :
                 /\ DictHas(volume_dict, k) <=> RecordsOfKey(k) # {}
                 /\ (DictHas(volume_dict, k) =>
                       DictGet(volume_dict, k) = MaxSliceId(k)))

\* the second pass has ended after a smaller slice_id followed a larger
\* one of the same key, on two pages, with bookkeeping and data records
C22_Witness ==
    /\ pc = "chunks"
    /\ op = "oct"
    /\ Len(visited) = 2
    /\ Len(records) = MaxRecords
    /\ records[1].key = records[3].key
    /\ records[1].slice_id = 4
    /\ records[3].slice_id = 2
    /\ records[1].pos # records[3].pos
    /\ records[2].start = 0
    /\ records[3].start > records[3].pos

\* floor(n / 2)
FloorHalf(n) == IF n >= 0 THEN n \div 2 ELSE -((1 - n) \div 2)
\* the pre-scan has seen a record with the key and slice_id of chunk c
SeenInPreScan(c) ==
    \E i \in 1..Len(records) :
        records[i].key = c.key /\ records[i].slice_id = c.slice_id
\* the step decodes an OCT pixel chunk and keeps its image
DecodesSlice == op = "oct" /\ decoded' # decoded

\* C23: when read_oct_volume decodes a pixel chunk whose key and slice_id
\* are those of a sub-directory record of the pre-scan, the index
\* floor(slice_id/2) - 1 lies within the key's slot array, the slice is
\* stored in that slot, and every other slot of every key stays as it was.
C23_SlotInRange ==
    [][(DecodesSlice /\ SeenInPreScan(chunk')) =>
         LET k     == chunk'.key
             index == FloorHalf(chunk'.slice_id) - 1
         IN  /\ DictHas(volume_array_dict, k)
             /\ 0 <= index
             /\ index < Len(DictGet(volume_array_dict, k))
             /\ volume_array_dict' =
                   DictPut(volume_array_dict, k,
                           [DictGet(volume_array_dict, k) EXCEPT
                              ![index + 1] = Image(chunk_stack[idx + 1])])
             /\ volume_array_dict_additional' = volume_array_dict_additional
      ]_vars

\* the bytes [offset, offset + size)
ByteRange(offset, size) == offset..(offset + size - 1)
\* no two of the catalogued chunks at the indices I share a byte
PairwiseDisjoint(I, range(_)) ==
    \A i, j \in I : i # j => range(i) \cap range(j) = {}
DictDisjoint(d) ==
    PairwiseDisjoint(1..Len(d), LAMBDA i : ByteRange(d[i][2][1], d[i][2][2]))
\* the scan step records a chunk
RecordsChunk == t_pc = "scan" /\ chunk_dict' # chunk_dict

\* C24: the byte ranges of the chunks catalogued for one container, by the
\* E2E second pass or by the Topcon scan, are pairwise disjoint; in the
\* Topcon scan each recorded offset is larger than those recorded before
\* and each earlier chunk ends at or before the prefix of the next.
C24_RangesDisjoint ==
    /\ [](PairwiseDisjoint(1..Len(ranges),
             LAMBDA i : ByteRange(ranges[i].start, ranges[i].size)))
    /\ [](DictDisjoint(chunk_dict))
    /\ [](\A i \in 1..Len(scans) : DictDisjoint(scans[i].catalog))
    /\ [][RecordsChunk =>
            \A i \in 1..Len(chunk_dict) :
               LET new == DictGet(chunk_dict', ReadAt(f_pos + 1, file[f_pos + 1]))
               IN  /\ chunk_dict[i][2][1] < new[1]
                   /\ chunk_dict[i][2][1] + chunk_dict[i][2][2] <= f_pos
                   /\ f_pos < new[1]
         ]_vars

\* the volumes of a returned list whose key is not k
VolumesNotOf(lst, k) == SelectSeq(lst, LAMBDA v : v.volume_id # k)

\* C25: two calls of read_oct_volume, on containers that differ only in
\* chunks of one key and on reader objects with or without an earlier
\* read, return the same volume for every other key: the same slices in
\* the same order, the same laterality and the same patient fields.
C25_OtherKeysUnaffected ==
    twin_out # <<>> =>
        VolumesNotOf(twin_out[1].one.result, twin_key)
            = VolumesNotOf(twin_out[1].two.result, twin_key)

\* the places <<volume, slice>> of the returned list that hold image x
PlacesOf(x) ==
    {ij \in (1..Len(result)) \X (1..(MaxEntries + 2)) :
        /\ ij[2] <= Len(result[ij[1]].volume)
        /\ result[ij[1]].volume[ij[2]] = x}
\* the number of slices of the first n returned volumes
RECURSIVE SlicesIn(_)
SlicesIn(n) == IF n = 0 THEN 0 ELSE Len(result[n].volume) + SlicesIn(n - 1)

\* C26: when read_oct_volume returns, the image of every OCT pixel chunk it
\* decoded is in exactly one place of exactly one returned volume, and the
\* returned volumes together have as many slices as chunks were decoded.
C26_EveryImageOnce ==
    (op = "oct" /\ pc = "done") =>
        /\ \A i \in 1..Len(decoded) :
              Cardinality(PlacesOf(Image(decoded[i].start))) = 1
        /\ SlicesIn(Len(result)) = Len(decoded)

\* C27: for every 16-bit sample, read_custom_float on its two bytes, low
\* byte first, gives the value uint16_to_ufloat16 gives for the sample, by
\* a call or as the entry of the lookup table at that index.
C27_ByteDecoderAgrees ==
    custom_value # <<>> =>
        /\ (decimal_value # <<>> => custom_value[1] = decimal_value[1])
        /\ \A e \in LUT : e[1] = uint16 /\ e[2] = custom_value[1]

\* a sample with bits set in both bytes, in mantissa and exponent, has been
\* decoded by the byte decoder, by a call and by the table build
C27_Witness ==
    /\ uint16 = 52851
    /\ custom_value # <<>>
    /\ decimal_value # <<>>
    /\ LUT # {}
    /\ custom_value[1].exp # -ExpBias
    /\ custom_value[1].num # custom_value[1].den

\* the entries of table t are the numbers 0..n-1, each once
IsPermutation(t, n) ==
    /\ Len(t) = n
    /\ {t[p] : p \in 1..n} = 0..(n - 1)

\* C28: after read_oct_volume, with N = vdim3 * vdim4, the tables to_vol
\* and to_stack are permutations of 0..N-1 and inverse to each other.
C28_IndexTablesInverse ==
    indicies # <<>> =>
        LET N        == volume_shape[1] * volume_shape[2]
            to_vol   == indicies[1].to_vol
            to_stack == indicies[1].to_stack
        IN  /\ IsPermutation(to_vol, N)
            /\ IsPermutation(to_stack, N)
            /\ \A p \in 0..(N - 1) : to_stack[to_vol[p + 1] + 1] = p
            /\ \A q \in 0..(N - 1) : to_vol[to_stack[q + 1] + 1] = q

\* the tables of a 2 x 3 grid: neither is the identity, and they differ
C28_Witness ==
    /\ indicies # <<>>
    /\ volume_shape[1] = 2
    /\ volume_shape[2] = 3
    /\ indicies[1].to_vol # indicies[1].to_stack
    /\ indicies[1].to_vol[2] # 1

\* an iteration of the scan loop
ScanIteration == t_pc = "scan" /\ ~eof
\* the iteration ends the scan with an exception
ScanRaises == Len(scans') > Len(scans)

\* C29: every iteration of the scan either moves the read position forward
\* or ends the scan; the loop ends by a tag-length byte of 0 or by an error
\* raised with the position at or past the end of the file; and every scan
\* that has started ends.
C29_ScanTerminates ==
    /\ [][ScanIteration =>
            /\ (~ScanRaises => f_pos' > f_pos)
            /\ (eof' => file[f_pos + 1] = 0)
            /\ (ScanRaises => (f_pos' >= Len(file) /\ f_pos' >= f_pos))
         ]_vars
    /\ ((t_pc = "scan") ~> (t_pc # "scan"))

\* a scan has recorded a chunk and ended at the end of the file with an
\* error
C29_Witness ==
    /\ Len(scans) > 0
    /\ scans[Len(scans)].exc = "IndexError"
    /\ chunk_dict # <<>>
    /\ f_pos >= Len(file)

\* C30: for a frame whose de-XORed bytes hold the JP2 marker, unscramble_czm
\* returns (its assertion holds) a byte array as long as the frame, made of
\* every byte position of the de-XORed frame exactly once.
C30_EveryByteOnce ==
    (z_pc # "start" /\ z_pc # "off"
       /\ Find(DeXor(z_frame), Jp2Marker) # -1) =>
        /\ z_pc = "done"
        /\ Len(z_d) = Len(z_frame)
        /\ Len(z_src) = Len(z_frame)
        /\ {z_src[i] : i \in 1..Len(z_src)} = 0..(Len(z_frame) - 1)

====
